---- MODULE Spec2Model ----
(***************************************************************************)
(* grit: `grit count lines` (cmd/lines.go) and its result cache            *)
(* (cmd/cache.go).                                                         *)
(*                                                                         *)
(* Strings the code indexes or matches (path specs, branch names, regular  *)
(* expression sources, author names, e-mails, file names) are sequences of *)
(* tokens; a token stands for one or more characters.  Times are seconds   *)
(* since a Monday 00:00:00 local time in a zone without clock changes.     *)
(* The repository service (go-git) is the environment: a fixed universe of *)
(* commits, of which the references of each repository select a part.      *)
(***************************************************************************)
EXTENDS Integers, Sequences, FiniteSets, TLC

VARIABLES
    repos,       \* location -> the repository found there (HEAD and references)
    unreadable,  \* the commit objects and the trees that cannot be read
    clock,       \* the wall clock
    cacheFile,   \* the cache file in the home directory
    stores,      \* the number of entries appended to the cache so far
    procs,       \* the processes between loading the cache and their end,
                 \* where processes run side by side: what each loaded
    last         \* what the invocation of runLines that led to this state was
                 \* given and did; forgotten when the environment moves on

vars == <<repos, unreadable, clock, cacheFile, stores, procs, last>>

----------------------------------------------------------------------------
(* Time *)

Hour == 60 * 60
Day == 24 * Hour

\* time.Sunday; Go numbers the weekdays Sunday = 0 .. Saturday = 6
Sunday == 0

\* now.Weekday(); second 0 is a Monday
Weekday(t) == ((t \div Day) + 1) % 7

\* time.Date(y, m, d, 0, 0, 0, 0, now.Location()) for the date of t
StartOfDay(t) == t - (t % Day)

\* DaysToSubtract without the -1 that makes Monday the first day
DaysToSubtractFromSunday(now) ==
    IF Weekday(now) = Sunday THEN 7 ELSE Weekday(now)

\* the days the week window goes back from now
DaysToSubtract(now) ==
    IF Weekday(now) = Sunday THEN 7 ELSE Weekday(now) - 1

\* startTime of lines.go:124-140
StartTime(now, weekToDate) ==
    IF weekToDate
    THEN StartOfDay(now - DaysToSubtract(now) * Day)
    ELSE StartOfDay(now)

\* Before that also holds of the instant startTime itself
BeforeOrAt(when, startTime) == when <= startTime

\* c.Author.When.Before(startTime)
Before(when, startTime) == when < startTime

----------------------------------------------------------------------------
(* Strings *)

\* strings.LastIndex(s, tok): 0-based index of the last tok, -1 if none
LastIndex(s, tok) ==
    LET hits == {i \in 1..Len(s) : s[i] = tok}
    IN IF hits = {} THEN -1
       ELSE (CHOOSE i \in hits : \A j \in hits : j <= i) - 1

\* SplitPathSpec cutting at the first "@" instead of the last
SplitPathSpecAtFirst(pathSpec) ==
    LET hits == {i \in 1..Len(pathSpec) : pathSpec[i] = "@"}
        idx == IF hits = {} THEN -1
               ELSE (CHOOSE i \in hits : \A j \in hits : i <= j) - 1
    IN IF idx # -1
       THEN [path |-> SubSeq(pathSpec, 1, idx),
             branch |-> SubSeq(pathSpec, idx + 2, Len(pathSpec))]
       ELSE [path |-> pathSpec, branch |-> <<>>]

\* path and branch of a path spec, lines.go:82-87
SplitPathSpec(pathSpec) ==
    LET idx == LastIndex(pathSpec, "@")
    IN IF idx # -1
       THEN [path |-> SubSeq(pathSpec, 1, idx),
             branch |-> SubSeq(pathSpec, idx + 2, Len(pathSpec))]
       ELSE [path |-> pathSpec, branch |-> <<>>]

\* t occurs in s as a contiguous run of tokens
Contains(s, t) ==
    \E i \in 0..(Len(s) - Len(t)) : SubSeq(s, i + 1, i + Len(t)) = t

Count(s, tok) == Cardinality({i \in 1..Len(s) : s[i] = tok})

\* the alternatives of a pattern source, split at every "|"
RECURSIVE SplitAlt(_)
SplitAlt(src) ==
    LET bars == {i \in 1..Len(src) : src[i] = "|"}
    IN IF bars = {} THEN {src}
       ELSE LET i == CHOOSE k \in bars : \A j \in bars : k <= j
            IN {SubSeq(src, 1, i - 1)} \cup SplitAlt(SubSeq(src, i + 1, Len(src)))

\* regexp.Compile for sources made of literals, "|" and parentheses: an
\* unbalanced parenthesis is a compile error
Compile(src) ==
    IF Count(src, "(") # Count(src, ")")
    THEN [err |-> TRUE, alts |-> {}]
    ELSE [err |-> FALSE,
          alts |-> SplitAlt(SelectSeq(src, LAMBDA tok : tok \notin {"(", ")"}))]

\* re.MatchString(s): unanchored, some alternative occurs in s
MatchString(re, s) == \E alt \in re.alts : Contains(s, alt)

----------------------------------------------------------------------------
(* The repository service: commits, references, history, statistics *)

\* plumbing.Hash of a reference that does not exist
NoHash == "none"

\* Monday 00:00:00 of the week the invocations happen in
Monday0 == 7 * Day

AuthorA == [Name |-> <<"A">>, Email |-> <<"a", "@", "x">>]
AuthorB == [Name |-> <<"B">>, Email |-> <<"b", "@", "y">>]

FileStat(name, add, del) == [Name |-> name, Addition |-> add, Deletion |-> del]

\* The commits that exist in some repository: ParentHashes, Author, and the
\* per-file statistics c.Stats() computes.  k1..k6 live in "./", j1..j2 in
\* "../o".  k5 merges k3 (main) and k4 (feature).
Commits ==
    [k1 |-> [ParentHashes |-> <<>>, Author |-> AuthorA,
             When |-> Monday0 - Day - 12 * Hour,
             Stats |-> <<FileStat(<<"t", ".txt">>, 3, 0), FileStat(<<"s", ".py">>, 2, 0)>>],
     k2 |-> [ParentHashes |-> <<"k1">>, Author |-> AuthorB,
             When |-> Monday0 - 1,
             Stats |-> <<FileStat(<<"t", ".txt">>, 1, 1)>>],
     k3 |-> [ParentHashes |-> <<"k2">>, Author |-> AuthorA,
             When |-> Monday0,
             Stats |-> <<FileStat(<<"c", ".yml">>, 20, 10)>>],
     k4 |-> [ParentHashes |-> <<"k2">>, Author |-> AuthorB,
             When |-> Monday0 + 6 * Hour,
             Stats |-> <<FileStat(<<"s", ".py">>, 200, 100), FileStat(<<"t", ".txt">>, 100, 0)>>],
     k5 |-> [ParentHashes |-> <<"k3", "k4">>, Author |-> AuthorA,
             When |-> Monday0 + 8 * Hour,
             Stats |-> <<FileStat(<<"t", ".txt">>, 4000, 2000)>>],
     k6 |-> [ParentHashes |-> <<"k5">>, Author |-> AuthorB,
             When |-> Monday0 + 6 * Day + 20 * Hour,
             Stats |-> <<FileStat(<<"s", ".py">>, 50000, 0)>>],
     j1 |-> [ParentHashes |-> <<>>, Author |-> AuthorB,
             When |-> Monday0 + 2 * Day - 1,
             Stats |-> <<FileStat(<<"s", ".py">>, 600000, 0)>>],
     j2 |-> [ParentHashes |-> <<"j1">>, Author |-> AuthorA,
             When |-> Monday0 + 2 * Day,
             Stats |-> <<FileStat(<<"t", ".txt">>, 7000000, 3000000)>>]]

Hashes == DOMAIN Commits

\* filesystem locations
Dot == <<"./">>
Other == <<"../o">>

\* plumbing.NewBranchReferenceName, plumbing.NewRemoteReferenceName
NewBranchReferenceName(branch) == <<"refs/heads/">> \o branch
NewRemoteReferenceName(remote, branch) == <<"refs/remotes/">> \o remote \o <<"/">> \o branch

RefMain == NewBranchReferenceName(<<"m">>)
RefFeature == NewBranchReferenceName(<<"f">>)
RefOriginMain == NewRemoteReferenceName(<<"origin">>, <<"m">>)

\* git.PlainOpen(path): repos maps every location that holds a repository
\* to [HEAD |-> the reference HEAD points at, refs |-> reference -> hash]
PlainOpen(rs, path) ==
    IF path \in DOMAIN rs THEN [err |-> FALSE, repo |-> rs[path]]
    ELSE [err |-> TRUE, repo |-> [HEAD |-> <<>>, refs |-> <<>>]]

\* repo.Reference(refName, true)
Reference(repo, refName) ==
    IF refName \in DOMAIN repo.refs
    THEN [err |-> FALSE, hash |-> repo.refs[refName]]
    ELSE [err |-> TRUE, hash |-> NoHash]

\* repo.Head()
RepoHead(repo) == Reference(repo, repo.HEAD)

\* the commits repo.Log(From: hash) hands to ForEach, in go-git's default
\* (depth-first pre-order) order; stack holds the hashes still to visit,
\* first parent on top.  A commit object that cannot be read ends the
\* iteration with an error.
RECURSIVE Preorder(_, _, _, _)
Preorder(stack, seen, acc, bad) ==
    IF stack = <<>> THEN [commits |-> acc, err |-> FALSE]
    ELSE LET h == Head(stack)
             rest == Tail(stack)
         IN IF h \in seen THEN Preorder(rest, seen, acc, bad)
            ELSE IF h \in bad.object THEN [commits |-> acc, err |-> TRUE]
            ELSE Preorder(Commits[h].ParentHashes \o rest, seen \cup {h},
                          Append(acc, h), bad)

\* repo.Log(&git.LogOptions{From: hash}): fails when the starting commit
\* cannot be read
Log(hash, bad) ==
    IF hash \in bad.object THEN [err |-> TRUE, iter |-> [commits |-> <<>>, err |-> FALSE]]
    ELSE [err |-> FALSE, iter |-> Preorder(<<hash>>, {}, <<>>, bad)]

\* c.Stats(): fails when the trees of the commit cannot be read
Stats(h, bad) ==
    IF h \in bad.tree THEN [err |-> TRUE, stats |-> <<>>]
    ELSE [err |-> FALSE, stats |-> Commits[h].Stats]

----------------------------------------------------------------------------
(* The result cache, cmd/cache.go *)

\* maximum number of cache entries to keep
maxCacheSize == 100

\* an entry is too old after 24 hours
CacheTTL == 24 * Hour

\* CacheEntry
CacheEntry(args, authorRegex, remoteName, filenamesRegex, weekToDate, headHashes, added, deleted, timestamp) ==
    [Args |-> [AuthorRegex |-> authorRegex, RemoteName |-> remoteName,
               FilenamesRegex |-> filenamesRegex, WeekToDate |-> weekToDate],
     Paths |-> args,
     HeadHashes |-> headHashes,
     Results |-> [Added |-> added, Deleted |-> deleted],
     Timestamp |-> timestamp]

\* the cache file: state is "absent" (no file), "ok" (the JSON of a Cache),
\* "corrupt" (not the JSON of a Cache) or "denied" (cannot be read or
\* written); Entries is the Cache the file holds when state is "ok"
NoFile == [state |-> "absent", Entries |-> <<>>]

\* loadCache taking a missing file for a failure like any other
loadCacheMissingIsError(file) ==
    CASE file.state = "ok" -> [err |-> FALSE, Entries |-> file.Entries]
      [] OTHER -> [err |-> TRUE, Entries |-> <<>>]

\* loadCache
loadCache(file) ==
    CASE file.state = "absent" -> [err |-> FALSE, Entries |-> <<>>]
      [] file.state = "ok" -> [err |-> FALSE, Entries |-> file.Entries]
      [] OTHER -> [err |-> TRUE, Entries |-> <<>>]

\* LimitCacheSize keeping the first maxCacheSize entries instead of the last
LimitCacheSizeOldest(entries) ==
    IF Len(entries) > maxCacheSize
    THEN SubSeq(entries, 1, maxCacheSize)
    ELSE entries

\* the entries saveCache keeps: the last maxCacheSize
LimitCacheSize(entries) ==
    IF Len(entries) > maxCacheSize
    THEN SubSeq(entries, Len(entries) - maxCacheSize + 1, Len(entries))
    ELSE entries

\* saveCache: the result of the write and the file it leaves
saveCache(entries, file) ==
    IF file.state = "denied" THEN [err |-> TRUE, file |-> file]
    ELSE [err |-> FALSE, file |-> [state |-> "ok", Entries |-> LimitCacheSize(entries)]]

\* the comparison of one entry with the arguments, cache.go:102-120
EntryMatches(entry, args, authorRegex, remoteName, filenamesRegex, weekToDate) ==
    /\ ~ (\/ entry.Args.AuthorRegex # authorRegex
          \/ entry.Args.RemoteName # remoteName
          \/ entry.Args.FilenamesRegex # filenamesRegex
          \/ entry.Args.WeekToDate # weekToDate
          \/ Len(entry.Paths) # Len(args))
    /\ \A j \in 1..Len(args) : entry.Paths[j] = args[j]

\* findMatchingCacheEntry: the index of the entry returned, scanning from
\* index i down; 0 stands for nil
RECURSIVE ScanCache(_, _, _, _, _, _, _)
ScanCache(entries, i, args, authorRegex, remoteName, filenamesRegex, weekToDate) ==
    IF i < 1 THEN 0
    ELSE IF EntryMatches(entries[i], args, authorRegex, remoteName, filenamesRegex, weekToDate)
         THEN i
         ELSE ScanCache(entries, i - 1, args, authorRegex, remoteName, filenamesRegex, weekToDate)

\* findMatchingCacheEntry scanning from the oldest entry on
findOldestMatchingCacheEntry(entries, args, authorRegex, remoteName, filenamesRegex, weekToDate) ==
    LET M == {i \in 1..Len(entries) :
                 EntryMatches(entries[i], args, authorRegex, remoteName, filenamesRegex,
                              weekToDate)}
    IN IF M = {} THEN 0 ELSE CHOOSE i \in M : \A k \in M : i <= k

findMatchingCacheEntry(entries, args, authorRegex, remoteName, filenamesRegex, weekToDate) ==
    ScanCache(entries, Len(entries), args, authorRegex, remoteName, filenamesRegex, weekToDate)

\* PathStillValid without the comparison of the hashes
PathStillValidAnyHash(entry, path, rs) ==
    LET opened == PlainOpen(rs, path)
        head == RepoHead(opened.repo)
    IN /\ ~ opened.err
       /\ ~ head.err
       /\ path \in DOMAIN entry.HeadHashes

\* PathStillValid passing a path that cannot be opened
PathStillValidUnopened(entry, path, rs) ==
    LET opened == PlainOpen(rs, path)
        head == RepoHead(opened.repo)
    IN \/ opened.err
       \/ /\ ~ head.err
          /\ path \in DOMAIN entry.HeadHashes
          /\ entry.HeadHashes[path] = head.hash

\* PathStillValid with the @branch suffix of the path spec taken off
PathStillValidAtLocation(entry, path, rs) ==
    LET loc == SplitPathSpec(path).path
        opened == PlainOpen(rs, loc)
        head == RepoHead(opened.repo)
    IN /\ ~ opened.err
       /\ ~ head.err
       /\ loc \in DOMAIN entry.HeadHashes
       /\ entry.HeadHashes[loc] = head.hash

\* the check of one path in isCacheValid, cache.go:135-150
PathStillValid(entry, path, rs) ==
    LET opened == PlainOpen(rs, path)
        head == RepoHead(opened.repo)
    IN /\ ~ opened.err
       /\ ~ head.err
       /\ path \in DOMAIN entry.HeadHashes
       /\ entry.HeadHashes[path] = head.hash

\* isCacheValid rejecting an entry from 24 hours of age on
isCacheValidStrict(entry, paths, rs, now) ==
    /\ ~ (now - entry.Timestamp >= CacheTTL)
    /\ \A i \in 1..Len(paths) : PathStillValid(entry, paths[i], rs)

\* isCacheValid
isCacheValid(entry, paths, rs, now) ==
    /\ ~ (now - entry.Timestamp > CacheTTL)
    /\ \A i \in 1..Len(paths) : PathStillValid(entry, paths[i], rs)

----------------------------------------------------------------------------
(* The pipeline of runLines, cmd/lines.go:77-183 *)

\* what an invocation prints, one record per Printf
Msg(kind, path) == [kind |-> kind, path |-> path, added |-> 0, deleted |-> 0]
TotalsMsg(added, deleted) ==
    [kind |-> "totals", path |-> <<>>, added |-> added, deleted |-> deleted]

\* SumStats adding the lines of every file, whatever its name
RECURSIVE SumStatsEveryFile(_, _, _, _)
SumStatsEveryFile(stats, i, filenameRe, sum) ==
    IF i > Len(stats) THEN sum
    ELSE SumStatsEveryFile(stats, i + 1, filenameRe,
                           [added |-> sum.added + stats[i].Addition,
                            deleted |-> sum.deleted + stats[i].Deletion])

\* the loop over the file statistics of one commit, lines.go:168-175
RECURSIVE SumStats(_, _, _, _)
SumStats(stats, i, filenameRe, sum) ==
    IF i > Len(stats) THEN sum
    ELSE IF ~ filenameRe.nil /\ ~ MatchString(filenameRe, stats[i].Name)
         THEN SumStats(stats, i + 1, filenameRe, sum)
         ELSE SumStats(stats, i + 1, filenameRe,
                       [added |-> sum.added + stats[i].Addition,
                        deleted |-> sum.deleted + stats[i].Deletion])

\* Filter with a window that ends a day after its start
FilterOneDayOnly(h, startTime, re) ==
    LET c == Commits[h]
    IN IF Before(c.When, startTime) \/ ~ Before(c.When, startTime + Day) THEN "old"
       ELSE IF Len(c.ParentHashes) > 1 THEN "merge"
       ELSE IF ~ MatchString(re, c.Author.Name) /\ ~ MatchString(re, c.Author.Email)
            THEN "author"
       ELSE "pass"

\* Filter without the merge exclusion
FilterKeepingMerges(h, startTime, re) ==
    LET c == Commits[h]
    IN IF Before(c.When, startTime) THEN "old"
       ELSE IF ~ MatchString(re, c.Author.Name) /\ ~ MatchString(re, c.Author.Email)
            THEN "author"
       ELSE "pass"

\* Filter asking for a match of both the name and the e-mail
FilterNameAndEmail(h, startTime, re) ==
    LET c == Commits[h]
    IN IF Before(c.When, startTime) THEN "old"
       ELSE IF Len(c.ParentHashes) > 1 THEN "merge"
       ELSE IF ~ MatchString(re, c.Author.Name) \/ ~ MatchString(re, c.Author.Email)
            THEN "author"
       ELSE "pass"

\* the commit filters of the ForEach callback, lines.go:149-161: the name of
\* the first filter that rejects commit h, "pass" if none does
Filter(h, startTime, re) ==
    LET c == Commits[h]
    IN IF Before(c.When, startTime) THEN "old"
       ELSE IF Len(c.ParentHashes) > 1 THEN "merge"
       ELSE IF ~ MatchString(re, c.Author.Name) /\ ~ MatchString(re, c.Author.Email)
            THEN "author"
       ELSE "pass"

\* ForEach asking for the statistics of a commit before it filters it
RECURSIVE ForEachStatsFirst(_, _, _, _, _, _, _)
ForEachStatsFirst(iter, i, st, startTime, re, filenameRe, bad) ==
    IF i > Len(iter.commits) THEN [st EXCEPT !.err = iter.err]
    ELSE LET h == iter.commits[i]
             verdict == Filter(h, startTime, re)
             stats == Stats(h, bad)
         IN IF stats.err
            THEN [st EXCEPT !.visited = Append(@, [hash |-> h, verdict |-> "statsErr"]),
                            !.err = TRUE]
            ELSE IF verdict # "pass"
            THEN ForEachStatsFirst(iter, i + 1,
                         [st EXCEPT !.visited = Append(@, [hash |-> h, verdict |-> verdict])],
                         startTime, re, filenameRe, bad)
            ELSE LET sum == SumStats(stats.stats, 1, filenameRe,
                                     [added |-> st.added, deleted |-> st.deleted])
                 IN ForEachStatsFirst(iter, i + 1,
                            [st EXCEPT !.added = sum.added, !.deleted = sum.deleted,
                                       !.visited = Append(@, [hash |-> h, verdict |-> "counted"])],
                            startTime, re, filenameRe, bad)

\* ForEach ending the walk at the first commit older than the window start
RECURSIVE ForEachStoppingAtOld(_, _, _, _, _, _, _)
ForEachStoppingAtOld(iter, i, st, startTime, re, filenameRe, bad) ==
    IF i > Len(iter.commits) THEN [st EXCEPT !.err = iter.err]
    ELSE LET h == iter.commits[i]
             verdict == Filter(h, startTime, re)
             stats == Stats(h, bad)
         IN IF verdict = "old"
            THEN [st EXCEPT !.visited = Append(@, [hash |-> h, verdict |-> verdict])]
            ELSE IF verdict # "pass"
            THEN ForEachStoppingAtOld(iter, i + 1,
                         [st EXCEPT !.visited = Append(@, [hash |-> h, verdict |-> verdict])],
                         startTime, re, filenameRe, bad)
            ELSE IF stats.err
            THEN [st EXCEPT !.visited = Append(@, [hash |-> h, verdict |-> "statsErr"]),
                            !.err = TRUE]
            ELSE LET sum == SumStats(stats.stats, 1, filenameRe,
                                     [added |-> st.added, deleted |-> st.deleted])
                 IN ForEachStoppingAtOld(iter, i + 1,
                            [st EXCEPT !.added = sum.added, !.deleted = sum.deleted,
                                       !.visited = Append(@, [hash |-> h, verdict |-> "counted"])],
                            startTime, re, filenameRe, bad)

\* commits.ForEach(callback), lines.go:148-177, from the i-th commit of the
\* iteration on; st holds the running totals, the verdict on every commit
\* visited and whether the iteration ended with an error
RECURSIVE ForEach(_, _, _, _, _, _, _)
ForEach(iter, i, st, startTime, re, filenameRe, bad) ==
    IF i > Len(iter.commits) THEN [st EXCEPT !.err = iter.err]
    ELSE LET h == iter.commits[i]
             verdict == Filter(h, startTime, re)
             stats == Stats(h, bad)
         IN IF verdict # "pass"
            THEN ForEach(iter, i + 1,
                         [st EXCEPT !.visited = Append(@, [hash |-> h, verdict |-> verdict])],
                         startTime, re, filenameRe, bad)
            ELSE IF stats.err
            THEN [st EXCEPT !.visited = Append(@, [hash |-> h, verdict |-> "statsErr"]),
                            !.err = TRUE]
            ELSE LET sum == SumStats(stats.stats, 1, filenameRe,
                                     [added |-> st.added, deleted |-> st.deleted])
                 IN ForEach(iter, i + 1,
                            [st EXCEPT !.added = sum.added, !.deleted = sum.deleted,
                                       !.visited = Append(@, [hash |-> h, verdict |-> "counted"])],
                            startTime, re, filenameRe, bad)

\* SetHash keeping the hash a location already has
SetHashKeepingFirst(headHashes, path, hash) ==
    [p \in DOMAIN headHashes \cup {path} |->
        IF p \in DOMAIN headHashes THEN headHashes[p] ELSE hash]

\* headHashes[path] = hash.String()
SetHash(headHashes, path, hash) ==
    [p \in DOMAIN headHashes \cup {path} |-> IF p = path THEN hash ELSE headHashes[p]]

\* what one iteration of the loop over the path specs left behind
SpecTrace(pathSpec, path, branch, hash, now, startTime, err, visited) ==
    [pathSpec |-> pathSpec, path |-> path, branch |-> branch, hash |-> hash,
     now |-> now, startTime |-> startTime, err |-> err, visited |-> visited]

\* an iteration that ends with continue after printing an error
Skip(acc, kind, pathSpec, path, branch, hash, now, startTime) ==
    [acc EXCEPT !.out = Append(@, Msg(kind, path)),
                !.trace = Append(@, SpecTrace(pathSpec, path, branch, hash, now, startTime,
                                              kind, <<>>))]

\* Resolve looking up the local branch whatever remoteName is
ResolveLocalOnly(repo, branch, remoteName) ==
    IF branch = <<>>
    THEN LET head == RepoHead(repo)
         IN [err |-> IF head.err THEN "errHead" ELSE "none", hash |-> head.hash]
    ELSE LET branchRef == Reference(repo, NewBranchReferenceName(branch))
         IN [err |-> IF branchRef.err THEN "errBranch" ELSE "none", hash |-> branchRef.hash]

\* the starting commit of a path spec, lines.go:95-121
Resolve(repo, branch, remoteName) ==
    IF branch = <<>>
    THEN LET head == RepoHead(repo)
         IN [err |-> IF head.err THEN "errHead" ELSE "none", hash |-> head.hash]
    ELSE LET refName == IF remoteName # <<>>
                        THEN NewRemoteReferenceName(remoteName, branch)
                        ELSE NewBranchReferenceName(branch)
             branchRef == Reference(repo, refName)
         IN [err |-> IF branchRef.err THEN "errBranch" ELSE "none", hash |-> branchRef.hash]

\* one iteration of the loop over the path specs, lines.go:80-183; acc holds
\* totalAdded, totalDeleted, headHashes, the output and the trace so far
ProcessPathSpec(acc, pathSpec, now, re, filenameRe, remoteName, weekToDate, rs, bad) ==
    LET split == SplitPathSpec(pathSpec)
        path == split.path
        branch == split.branch
        opened == PlainOpen(rs, path)
        resolved == Resolve(opened.repo, branch, remoteName)
        hash == resolved.hash
        startTime == StartTime(now, weekToDate)
        commits == Log(hash, bad)
        st == ForEach(commits.iter, 1,
                      [added |-> acc.totalAdded, deleted |-> acc.totalDeleted,
                       visited |-> <<>>, err |-> FALSE],
                      startTime, re, filenameRe, bad)
        withHash == [acc EXCEPT !.headHashes = SetHash(@, path, hash)]
    IN IF opened.err THEN Skip(acc, "errOpen", pathSpec, path, branch, NoHash, now, 0)
       ELSE IF resolved.err # "none"
            THEN Skip(acc, resolved.err, pathSpec, path, branch, NoHash, now, 0)
       ELSE IF commits.err
            THEN Skip(withHash, "errLog", pathSpec, path, branch, hash, now, startTime)
       ELSE [withHash EXCEPT
                !.totalAdded = st.added,
                !.totalDeleted = st.deleted,
                !.out = IF st.err THEN Append(@, Msg("errProcess", path)) ELSE @,
                !.trace = Append(@, SpecTrace(pathSpec, path, branch, hash, now, startTime,
                                              IF st.err THEN "errProcess" ELSE "none",
                                              st.visited))]

\* Loop with break in the place of continue: the loop ends at the first
\* path spec that cannot be opened or resolved
RECURSIVE LoopBreaking(_, _, _, _, _, _, _, _, _, _)
LoopBreaking(args, i, nows, acc, re, filenameRe, remoteName, weekToDate, rs, bad) ==
    IF i > Len(args) THEN acc
    ELSE LET next == ProcessPathSpec(acc, args[i], nows[i], re, filenameRe, remoteName,
                                     weekToDate, rs, bad)
         IN IF next.trace[Len(next.trace)].err \in {"errOpen", "errHead", "errBranch"}
            THEN next
            ELSE LoopBreaking(args, i + 1, nows, next, re, filenameRe, remoteName,
                              weekToDate, rs, bad)

\* Loop with totals that start at zero in every iteration
RECURSIVE LoopResettingTotals(_, _, _, _, _, _, _, _, _, _)
LoopResettingTotals(args, i, nows, acc, re, filenameRe, remoteName, weekToDate, rs, bad) ==
    IF i > Len(args) THEN acc
    ELSE LoopResettingTotals(args, i + 1, nows,
              ProcessPathSpec([acc EXCEPT !.totalAdded = 0, !.totalDeleted = 0],
                              args[i], nows[i], re, filenameRe, remoteName,
                              weekToDate, rs, bad),
              re, filenameRe, remoteName, weekToDate, rs, bad)

\* the loop over the path specs from the i-th on; nows[i] is what timeNow()
\* returns in the i-th iteration
RECURSIVE Loop(_, _, _, _, _, _, _, _, _, _)
Loop(args, i, nows, acc, re, filenameRe, remoteName, weekToDate, rs, bad) ==
    IF i > Len(args) THEN acc
    ELSE Loop(args, i + 1, nows,
              ProcessPathSpec(acc, args[i], nows[i], re, filenameRe, remoteName,
                              weekToDate, rs, bad),
              re, filenameRe, remoteName, weekToDate, rs, bad)

----------------------------------------------------------------------------
(* runLines, cmd/lines.go:38-219 *)

\* HitOutput printing Results.Added in both places
HitOutputAddedTwice(entry) == TotalsMsg(entry.Results.Added, entry.Results.Added)

\* what a cache hit prints, lines.go:57
HitOutput(entry) == TotalsMsg(entry.Results.Added, entry.Results.Deleted)

\* CompileFilenames going on with the pattern it could not compile
CompileFilenamesLenient(filenamesRegex) ==
    IF filenamesRegex # <<>>
    THEN [nil |-> FALSE, err |-> FALSE, alts |-> Compile(filenamesRegex).alts]
    ELSE [nil |-> TRUE, err |-> FALSE, alts |-> {}]

\* filenameRe of lines.go:62-69: nil when filenamesRegex is empty
CompileFilenames(filenamesRegex) ==
    IF filenamesRegex # <<>>
    THEN [nil |-> FALSE, err |-> Compile(filenamesRegex).err,
          alts |-> Compile(filenamesRegex).alts]
    ELSE [nil |-> TRUE, err |-> FALSE, alts |-> {}]

\* Store appending the new entry twice
StoreTwice(base, authorRegex, remoteName, filenamesRegex, weekToDate, noCache, entries, file, end, acc) ==
    LET newEntry == CacheEntry(base.args, authorRegex, remoteName, filenamesRegex,
                               weekToDate, acc.headHashes, acc.totalAdded,
                               acc.totalDeleted, end)
        saved == saveCache(Append(Append(entries, newEntry), newEntry), file)
    IN [base EXCEPT
           !.computed = TRUE,
           !.trace = acc.trace,
           !.headHashes = acc.headHashes,
           !.stored = IF noCache THEN <<>> ELSE <<newEntry>>,
           !.file = IF noCache THEN file ELSE saved.file,
           !.end = end,
           !.out = (IF ~ noCache /\ saved.err
                    THEN Append(acc.out, Msg("warnSave", <<>>)) ELSE acc.out)
                   \o <<TotalsMsg(acc.totalAdded, acc.totalDeleted)>>]

\* Store reading the file again before it appends
StoreMerging(base, authorRegex, remoteName, filenamesRegex, weekToDate, noCache, entries, file, end, acc) ==
    LET newEntry == CacheEntry(base.args, authorRegex, remoteName, filenamesRegex,
                               weekToDate, acc.headHashes, acc.totalAdded,
                               acc.totalDeleted, end)
        saved == saveCache(Append(loadCache(file).Entries, newEntry), file)
    IN [base EXCEPT
           !.computed = TRUE,
           !.trace = acc.trace,
           !.headHashes = acc.headHashes,
           !.stored = IF noCache THEN <<>> ELSE <<newEntry>>,
           !.file = IF noCache THEN file ELSE saved.file,
           !.end = end,
           !.out = (IF ~ noCache /\ saved.err
                    THEN Append(acc.out, Msg("warnSave", <<>>)) ELSE acc.out)
                   \o <<TotalsMsg(acc.totalAdded, acc.totalDeleted)>>]

\* Store replacing the entries equal to the query by the new entry
StoreReplacing(base, authorRegex, remoteName, filenamesRegex, weekToDate, noCache, entries, file, end, acc) ==
    LET newEntry == CacheEntry(base.args, authorRegex, remoteName, filenamesRegex,
                               weekToDate, acc.headHashes, acc.totalAdded,
                               acc.totalDeleted, end)
        others == SelectSeq(entries,
                            LAMBDA e : ~ EntryMatches(e, base.args, authorRegex, remoteName,
                                                      filenamesRegex, weekToDate))
        saved == saveCache(Append(others, newEntry), file)
    IN [base EXCEPT
           !.computed = TRUE,
           !.trace = acc.trace,
           !.headHashes = acc.headHashes,
           !.stored = IF noCache THEN <<>> ELSE <<newEntry>>,
           !.file = IF noCache THEN file ELSE saved.file,
           !.end = end,
           !.out = (IF ~ noCache /\ saved.err
                    THEN Append(acc.out, Msg("warnSave", <<>>)) ELSE acc.out)
                   \o <<TotalsMsg(acc.totalAdded, acc.totalDeleted)>>]

\* the end of runLines, lines.go:185-218: the totals of the loop are stored
\* in the cache unless noCache, and printed
Store(base, authorRegex, remoteName, filenamesRegex, weekToDate, noCache, entries, file, end, acc) ==
    LET newEntry == CacheEntry(base.args, authorRegex, remoteName, filenamesRegex,
                               weekToDate, acc.headHashes, acc.totalAdded,
                               acc.totalDeleted, end)
        saved == saveCache(Append(entries, newEntry), file)
    IN [base EXCEPT
           !.computed = TRUE,
           !.trace = acc.trace,
           !.headHashes = acc.headHashes,
           !.stored = IF noCache THEN <<>> ELSE <<newEntry>>,
           !.file = IF noCache THEN file ELSE saved.file,
           !.end = end,
           !.out = (IF ~ noCache /\ saved.err
                    THEN Append(acc.out, Msg("warnSave", <<>>)) ELSE acc.out)
                   \o <<TotalsMsg(acc.totalAdded, acc.totalDeleted)>>]

\* Answer serving the newest entry equal to the query that is valid, when
\* the one the lookup returned is not
AnswerTryingOlder(args, authorRegex, remoteName, filenamesRegex, weekToDate, noCache, nows, rs, bad, file, warn, entries, idx) ==
    LET filenameRe == CompileFilenames(filenamesRegex)
        re == Compile(authorRegex)
        valid == {i \in 1..Len(entries) :
                     /\ idx # 0
                     /\ EntryMatches(entries[i], args, authorRegex, remoteName,
                                     filenamesRegex, weekToDate)
                     /\ isCacheValid(entries[i], args, rs, nows[1])}
        best == IF valid = {} THEN idx ELSE CHOOSE i \in valid : \A k \in valid : k <= i
        base == [args |-> args,
                 found |-> IF best = 0 THEN <<>> ELSE <<entries[best]>>,
                 hit |-> FALSE, computed |-> FALSE,
                 out |-> warn, trace |-> <<>>, headHashes |-> <<>>,
                 stored |-> <<>>, file |-> file, end |-> nows[1]]
    IN IF valid # {}
       THEN [base EXCEPT !.hit = TRUE,
                         !.out = Append(warn, HitOutput(entries[best]))]
       ELSE IF filenameRe.err
            THEN [base EXCEPT !.out = Append(warn, Msg("errFilenameRegex", <<>>))]
       ELSE IF re.err
            THEN [base EXCEPT !.out = Append(warn, Msg("errAuthorRegex", <<>>))]
       ELSE Store(base, authorRegex, remoteName, filenamesRegex, weekToDate, noCache,
                  entries, file, nows[Len(args)],
                  Loop(args, 1, nows,
                       [totalAdded |-> 0, totalDeleted |-> 0, headHashes |-> <<>>,
                        out |-> warn, trace |-> <<>>],
                       re, filenameRe, remoteName, weekToDate, rs, bad))

\* runLines from the cache lookup on, lines.go:52-218: idx is the entry
\* findMatchingCacheEntry returned, 0 for nil
Answer(args, authorRegex, remoteName, filenamesRegex, weekToDate, noCache, nows, rs, bad, file, warn, entries, idx) ==
    LET filenameRe == CompileFilenames(filenamesRegex)
        re == Compile(authorRegex)
        base == [args |-> args,
                 found |-> IF idx = 0 THEN <<>> ELSE <<entries[idx]>>,
                 hit |-> FALSE, computed |-> FALSE,
                 out |-> warn, trace |-> <<>>, headHashes |-> <<>>,
                 stored |-> <<>>, file |-> file, end |-> nows[1]]
    IN IF idx # 0 /\ isCacheValid(entries[idx], args, rs, nows[1])
       THEN [base EXCEPT !.hit = TRUE,
                         !.out = Append(warn, HitOutput(entries[idx]))]
       ELSE IF filenameRe.err
            THEN [base EXCEPT !.out = Append(warn, Msg("errFilenameRegex", <<>>))]
       ELSE IF re.err
            THEN [base EXCEPT !.out = Append(warn, Msg("errAuthorRegex", <<>>))]
       ELSE Store(base, authorRegex, remoteName, filenamesRegex, weekToDate, noCache,
                  entries, file, nows[Len(args)],
                  Loop(args, 1, nows,
                       [totalAdded |-> 0, totalDeleted |-> 0, headHashes |-> <<>>,
                        out |-> warn, trace |-> <<>>],
                       re, filenameRe, remoteName, weekToDate, rs, bad))

\* Run looking into the cache and storing into it whatever noCache is
RunIgnoringNoCache(args0, authorRegex, remoteName, filenamesRegex, weekToDate, noCache, nows, rs, bad, file) ==
    LET args == IF Len(args0) = 0 THEN <<Dot>> ELSE args0
        loaded == loadCache(file)
        warn == IF loaded.err THEN <<Msg("warnLoad", <<>>)>> ELSE <<>>
    IN Answer(args, authorRegex, remoteName, filenamesRegex, weekToDate, FALSE, nows,
              rs, bad, file, warn, loaded.Entries,
              findMatchingCacheEntry(loaded.Entries, args, authorRegex, remoteName,
                                     filenamesRegex, weekToDate))

\* what one invocation does: its output, the cache file and the clock it
\* leaves, and the intermediate values the properties refer to.  nows[i] is
\* the clock reading of the i-th iteration of the loop; the invocation
\* starts at nows[1].
Run(args0, authorRegex, remoteName, filenamesRegex, weekToDate, noCache, nows, rs, bad, file) ==
    LET args == IF Len(args0) = 0 THEN <<Dot>> ELSE args0
        loaded == loadCache(file)
        warn == IF ~ noCache /\ loaded.err THEN <<Msg("warnLoad", <<>>)>> ELSE <<>>
    IN Answer(args, authorRegex, remoteName, filenamesRegex, weekToDate, noCache, nows,
              rs, bad, file, warn, loaded.Entries,
              IF noCache THEN 0
              ELSE findMatchingCacheEntry(loaded.Entries, args, authorRegex, remoteName,
                                          filenamesRegex, weekToDate))

\* the record of an invocation kept in last
Invocation(args0, authorRegex, remoteName, filenamesRegex, weekToDate, noCache, nows, r) ==
    [ran |-> TRUE, args |-> r.args, authorRegex |-> authorRegex,
     remoteName |-> remoteName, filenamesRegex |-> filenamesRegex,
     weekToDate |-> weekToDate, noCache |-> noCache, nows |-> nows,
     found |-> r.found, hit |-> r.hit, computed |-> r.computed, out |-> r.out,
     trace |-> r.trace, headHashes |-> r.headHashes, stored |-> r.stored]

NoInvocation ==
    [ran |-> FALSE, args |-> <<>>, authorRegex |-> <<>>, remoteName |-> <<>>,
     filenamesRegex |-> <<>>, weekToDate |-> FALSE, noCache |-> FALSE, nows |-> <<>>,
     found |-> <<>>, hit |-> FALSE, computed |-> FALSE, out |-> <<>>,
     trace |-> <<>>, headHashes |-> <<>>, stored |-> <<>>]

\* no process is between loading the cache and its end
NoProcs == <<>>

\* the number of entries one behaviour may append to the cache
MaxStores == 2

\* one invocation of `grit count lines`
runLines(args0, authorRegex, remoteName, filenamesRegex, weekToDate, noCache, nows) ==
    \E r \in {Run(args0, authorRegex, remoteName, filenamesRegex, weekToDate, noCache,
                  nows, repos, unreadable, cacheFile)} :
       /\ r.stored # <<>> => stores < MaxStores
       /\ cacheFile' = r.file
       /\ clock' = r.end
       /\ stores' = stores + Len(r.stored)
       /\ last' = Invocation(args0, authorRegex, remoteName, filenamesRegex, weekToDate,
                             noCache, nows, r)
       /\ UNCHANGED <<repos, unreadable, procs>>

----------------------------------------------------------------------------
(* The environment: repositories and the clock *)

\* the references of "./" and "../o" before any of the moves below
InitRepos ==
    [p \in {Dot, Other} |->
        IF p = Dot
        THEN [HEAD |-> RefMain,
              refs |-> [n \in {RefMain, RefFeature, RefOriginMain} |->
                           IF n = RefMain THEN "k3"
                           ELSE IF n = RefFeature THEN "k4" ELSE "k2"]]
        ELSE [HEAD |-> RefMain, refs |-> [n \in {RefMain} |-> "j1"]]]

\* the commits and merges made while the program is in use: a branch moves
\* to a commit that has its present commit as a parent
Moves ==
    {[path |-> Other, ref |-> RefMain, to |-> "j2"]}

InSeq(x, s) == \E i \in 1..Len(s) : s[i] = x

\* git commit / git merge on a branch
Advance(m) ==
    /\ m.path \in DOMAIN repos
    /\ m.ref \in DOMAIN repos[m.path].refs
    /\ InSeq(repos[m.path].refs[m.ref], Commits[m.to].ParentHashes)
    /\ repos' = [repos EXCEPT ![m.path].refs[m.ref] = m.to]
    /\ last' = NoInvocation
    /\ UNCHANGED <<unreadable, clock, cacheFile, stores, procs>>

\* git checkout of another local branch
Checkout(path, ref) ==
    /\ path \in DOMAIN repos
    /\ ref \in DOMAIN repos[path].refs
    /\ ref \in {RefMain, RefFeature}
    /\ ref # repos[path].HEAD
    /\ repos' = [repos EXCEPT ![path].HEAD = ref]
    /\ last' = NoInvocation
    /\ UNCHANGED <<unreadable, clock, cacheFile, stores, procs>>

\* time passes: the clock moves to the next of the instants in values
Tick(values) ==
    /\ \E t \in values :
          /\ t > clock
          /\ \A u \in values : u > clock => t <= u
          /\ clock' = t
    /\ last' = NoInvocation
    /\ UNCHANGED <<repos, unreadable, cacheFile, stores, procs>>

----------------------------------------------------------------------------
(* Spec: invocations with and without the cache, between them commits,     *)
(* checkouts and the passing of time                                       *)

MainSpec == Dot \o <<"@", "m">>
FeatureSpec == Dot \o <<"@", "f">>

CacheArgs == {<<Dot>>, <<MainSpec>>, <<Dot, Other>>}
CacheAuthorRegexes == {<<"B">>}
CacheWeekToDate == {FALSE}

\* Monday noon, and one second more than 24 hours later
CacheClock == {Monday0 + 12 * Hour, Monday0 + 12 * Hour + CacheTTL + 1}

\* the clock does not advance within an invocation
Steady(n, t) == [i \in 1..n |-> t]

Init ==
    /\ repos = InitRepos
    /\ unreadable = [object |-> {}, tree |-> {}]
    /\ clock = Monday0 + 12 * Hour
    /\ cacheFile = NoFile
    /\ stores = 0
    /\ procs = NoProcs
    /\ last = NoInvocation

Invoke ==
    \E args \in CacheArgs, authorRegex \in CacheAuthorRegexes,
       weekToDate \in CacheWeekToDate, noCache \in BOOLEAN :
        runLines(args, authorRegex, <<>>, <<>>, weekToDate, noCache,
                 Steady(Len(args), clock))

Commit == \E m \in Moves : Advance(m)

Switch == \E ref \in {RefMain, RefFeature} : Checkout(Dot, ref)

Pass == Tick(CacheClock)

Next == Invoke \/ Commit \/ Switch \/ Pass

Spec == Init /\ [][Next]_vars

----------------------------------------------------------------------------
(* SpecSave: the same invocations, starting with a cache file that earlier *)
(* invocations have filled up to or close to maxCacheSize                  *)

\* the entry an invocation for "../o" and author A left k days and seconds
\* before the Sunday noon before Monday0, k = 0 being the most recent one
OldEntry(k) ==
    CacheEntry(<<Other>>, <<"A">>, <<>>, <<>>, FALSE, [p \in {Other} |-> "j1"], 0, 0,
               Monday0 - 12 * Hour - k * (CacheTTL + 1))

\* a cache of n such entries, oldest first
OldEntries(n) == [i \in 1..n |-> OldEntry(n - i)]

InitSave ==
    /\ repos = InitRepos
    /\ unreadable = [object |-> {}, tree |-> {}]
    /\ clock = Monday0 + 12 * Hour
    /\ \E n \in {maxCacheSize - 1, maxCacheSize} :
          cacheFile = [state |-> "ok", Entries |-> OldEntries(n)]
    /\ stores = 0
    /\ procs = NoProcs
    /\ last = NoInvocation

SpecSave == InitSave /\ [][Next]_vars

----------------------------------------------------------------------------
(* SpecPipe: one invocation, from every state of the repositories, at      *)
(* every instant of PipeClock, for a wide range of queries                 *)

Nowhere == <<"nowhere">>

PipeArgs ==
    {<<>>, <<Dot>>, <<MainSpec>>, <<FeatureSpec>>, <<MainSpec, FeatureSpec>>,
     <<Dot, Other>>, <<Nowhere, Other>>}
PipeAuthorRegexes ==
    {<<>>, <<"A">>, <<"@", "y">>, <<"(", "A", "|", "b", ")">>, <<"(">>}
PipeFilenamesRegexes == {<<>>, <<".py">>, <<"(">>}
PipeRemoteNames == {<<>>, <<"origin">>}

\* Monday, Wednesday, Saturday and Sunday noon, and 00:00:00 of the Monday
\* after
PipeClock ==
    {Monday0 + 12 * Hour, Monday0 + 2 * Day + 12 * Hour, Monday0 + 5 * Day + 12 * Hour,
     Monday0 + 6 * Day + 12 * Hour, Monday0 + 7 * Day}

\* the states of the repositories: main of "./" at k3, at the merge k5 or at
\* k6, either branch checked out, main of "../o" at j1 or at j2
PipeRepos ==
    {[InitRepos EXCEPT ![Dot].HEAD = head, ![Dot].refs[RefMain] = main,
                       ![Other].refs[RefMain] = other] :
        head \in {RefMain, RefFeature}, main \in {"k3", "k5", "k6"}, other \in {"j1", "j2"}}

\* nothing damaged, the trees of k4 damaged, the commit object k2 damaged
PipeUnreadable ==
    {[object |-> {}, tree |-> {}], [object |-> {}, tree |-> {"k4"}],
     [object |-> {"k2"}, tree |-> {}]}

\* the clock readings of an invocation that starts at t and loops n times:
\* the clock may advance between the iterations
RECURSIVE NowSeqs(_, _)
NowSeqs(n, t) ==
    IF n <= 1 THEN {<<t>>}
    ELSE {<<t>> \o rest : rest \in UNION {NowSeqs(n - 1, u) : u \in {v \in PipeClock : v >= t}}}

\* "../o" after git checkout --orphan f: HEAD points at a branch that has no
\* commit yet
PipeUnborn == {[InitRepos EXCEPT ![Other].HEAD = RefFeature]}

InitPipe ==
    /\ repos \in PipeRepos \cup PipeUnborn
    /\ unreadable \in PipeUnreadable
    /\ clock \in PipeClock
    /\ cacheFile = NoFile
    /\ stores = 0
    /\ procs = NoProcs
    /\ last = NoInvocation

PipeInvoke ==
    /\ ~ last.ran
    /\ \E args \in PipeArgs, authorRegex \in PipeAuthorRegexes,
          remoteName \in PipeRemoteNames, filenamesRegex \in PipeFilenamesRegexes,
          weekToDate \in BOOLEAN, noCache \in BOOLEAN :
          \E nows \in NowSeqs(IF args = <<>> THEN 1 ELSE Len(args), clock) :
              runLines(args, authorRegex, remoteName, filenamesRegex, weekToDate,
                       noCache, nows)

NextPipe == PipeInvoke

SpecPipe == InitPipe /\ [][NextPipe]_vars

----------------------------------------------------------------------------
(* SpecFile: one invocation, on every cache file that two earlier          *)
(* invocations, or damage to the file, may have left                       *)

\* Wednesday noon
FileNow == Monday0 + 2 * Day + 12 * Hour

\* the instants of the earlier invocations: a second more than 24 hours,
\* 24 hours, and one hour before FileNow
EarlierTimes == {FileNow - CacheTTL - 1, FileNow - CacheTTL, FileNow - Hour}

\* "../o" does not exist, or was removed
OnlyDot == [p \in {Dot} |-> InitRepos[p]]

\* "./" with the feature branch checked out
DotOnFeature == [InitRepos EXCEPT ![Dot].HEAD = RefFeature]

\* the repositories at the time of the earlier invocations, and now
\* a directory named "./@m" holds a repository as well
AtRepos ==
    [p \in {Dot, Other, MainSpec} |->
        IF p = MainSpec THEN [HEAD |-> RefMain, refs |-> [n \in {RefMain} |-> "j2"]]
        ELSE InitRepos[p]]

EarlierRepos == {InitRepos, OnlyDot, DotOnFeature}
FileRepos == {InitRepos, OnlyDot, DotOnFeature, AtRepos} \cup PipeUnborn

FileArgs == {<<Dot>>, <<Dot, Other>>, <<Other, Dot>>, <<MainSpec>>, <<Dot, MainSpec>>}

\* the flags of the earlier invocations, and the same with one flag changed
EarlierQuery ==
    [authorRegex |-> <<"B">>, remoteName |-> <<>>, filenamesRegex |-> <<>>,
     weekToDate |-> FALSE]
FileQueries ==
    {EarlierQuery,
     [EarlierQuery EXCEPT !.authorRegex = <<"A">>],
     [EarlierQuery EXCEPT !.remoteName = <<"origin">>],
     [EarlierQuery EXCEPT !.filenamesRegex = <<".py">>],
     [EarlierQuery EXCEPT !.weekToDate = TRUE]}

\* the cache file an invocation with the flags of EarlierQuery leaves
Earlier(args, t, rs, file) ==
    Run(args, EarlierQuery.authorRegex, EarlierQuery.remoteName,
        EarlierQuery.filenamesRegex, EarlierQuery.weekToDate, FALSE,
        Steady(Len(args), t), rs, [object |-> {}, tree |-> {}], file).file

\* the cache files two invocations in a row leave, starting without a file
Histories ==
    {Earlier(a2, t2, rs2, Earlier(a1, t1, rs1, NoFile)) :
        <<a1, a2>> \in FileArgs \X FileArgs,
        <<rs1, rs2>> \in EarlierRepos \X EarlierRepos,
        <<t1, t2>> \in {tt \in EarlierTimes \X EarlierTimes : tt[1] <= tt[2]}}

\* no file, a file that is not the JSON of a cache, a file that cannot be
\* read, and the files of Histories
FileStates ==
    {NoFile, [state |-> "corrupt", Entries |-> <<>>], [state |-> "denied", Entries |-> <<>>]}
        \cup Histories

InitFile ==
    /\ repos \in FileRepos
    /\ unreadable = [object |-> {}, tree |-> {}]
    /\ clock = FileNow
    /\ cacheFile \in FileStates
    /\ stores = 0
    /\ procs = NoProcs
    /\ last = NoInvocation

FileInvoke ==
    /\ ~ last.ran
    /\ \E args \in FileArgs, q \in FileQueries, noCache \in BOOLEAN :
          runLines(args, q.authorRegex, q.remoteName, q.filenamesRegex, q.weekToDate,
                   noCache, Steady(Len(args), clock))

NextFile == FileInvoke

SpecFile == InitFile /\ [][NextFile]_vars

----------------------------------------------------------------------------
(* SpecSplit: one invocation for one path spec, every sequence of up to    *)
(* MaxSpecLen of the tokens "./", "@" and "m"                              *)

MaxSpecLen == 5

SplitTokens == {"./", "@", "m"}

SplitSpecs == UNION {[1..k -> SplitTokens] : k \in 0..MaxSpecLen}

SplitRepos == {InitRepos, DotOnFeature, AtRepos}

InitSplit ==
    /\ repos \in SplitRepos
    /\ unreadable = [object |-> {}, tree |-> {}]
    /\ clock = FileNow
    /\ cacheFile = NoFile
    /\ stores = 0
    /\ procs = NoProcs
    /\ last = NoInvocation

SplitInvoke ==
    /\ ~ last.ran
    /\ \E pathSpec \in SplitSpecs, noCache \in BOOLEAN :
          runLines(<<pathSpec>>, <<>>, <<>>, <<>>, FALSE, noCache, <<clock>>)

NextSplit == SplitInvoke

SpecSplit == InitSplit /\ [][NextSplit]_vars

----------------------------------------------------------------------------
(* SpecRace: two processes run `grit count lines` side by side with        *)
(* caching enabled; each loads the cache file at its start and saves it at *)
(* its end, and the steps of the two interleave                            *)

RaceProcs == {1, 2}

RaceArgs == {<<Dot>>, <<Other>>}
RaceAuthorRegexes == {<<"A">>, <<"B">>}

\* no cache file, or the file an invocation for "../o" left an hour before
RaceFiles == {NoFile, Earlier(<<Other>>, FileNow - Hour, InitRepos, NoFile)}

InitRace ==
    /\ repos = InitRepos
    /\ unreadable = [object |-> {}, tree |-> {}]
    /\ clock = FileNow
    /\ cacheFile \in RaceFiles
    /\ stores = 0
    /\ procs = NoProcs
    /\ last = NoInvocation

\* the start of runLines in process p, lines.go:38-60: the cache is loaded
\* and looked up, and a hit ends the process
Load(p, args, authorRegex) ==
    LET loaded == loadCache(cacheFile)
        warn == IF loaded.err THEN <<Msg("warnLoad", <<>>)>> ELSE <<>>
        idx == findMatchingCacheEntry(loaded.Entries, args, authorRegex, <<>>, <<>>, FALSE)
        hit == idx # 0 /\ isCacheValid(loaded.Entries[idx], args, repos, clock)
    IN /\ p \notin DOMAIN procs
       /\ procs' = [q \in DOMAIN procs \cup {p} |->
                       IF q # p THEN procs[q]
                       ELSE [args |-> args, authorRegex |-> authorRegex,
                             entries |-> loaded.Entries, warn |-> warn,
                             done |-> hit, rank |-> 0, stored |-> <<>>,
                             out |-> IF hit THEN Append(warn, HitOutput(loaded.Entries[idx]))
                                     ELSE warn]]
       /\ last' = NoInvocation
       /\ UNCHANGED <<repos, unreadable, clock, cacheFile, stores>>

\* the number of processes that have saved the cache
Saved == Cardinality({q \in DOMAIN procs : procs[q].rank > 0})

\* the rest of runLines in process p after a miss, lines.go:62-218: the
\* pipeline, then the entries loaded at the start are saved with the new
\* entry appended
Finish(p) ==
    /\ p \in DOMAIN procs
    /\ ~ procs[p].done
    /\ \E r \in {Answer(procs[p].args, procs[p].authorRegex, <<>>, <<>>, FALSE, FALSE,
                         Steady(Len(procs[p].args), clock), repos, unreadable, cacheFile,
                         procs[p].warn, procs[p].entries, 0)} :
          /\ r.stored # <<>> => stores < MaxStores
          /\ cacheFile' = r.file
          /\ clock' = r.end
          /\ stores' = stores + Len(r.stored)
          /\ procs' = [procs EXCEPT ![p].done = TRUE, ![p].rank = Saved + 1,
                                    ![p].stored = r.stored, ![p].out = r.out]
          /\ last' = Invocation(procs[p].args, procs[p].authorRegex, <<>>, <<>>, FALSE,
                                FALSE, Steady(Len(procs[p].args), clock), r)
    /\ UNCHANGED <<repos, unreadable>>

RaceLoad ==
    \E p \in RaceProcs, args \in RaceArgs, authorRegex \in RaceAuthorRegexes :
        Load(p, args, authorRegex)

RaceFinish == \E p \in RaceProcs : Finish(p)

NextRace == RaceLoad \/ RaceFinish

SpecRace == InitRace /\ [][NextRace]_vars

----------------------------------------------------------------------------
(* Properties of the cache *)

\* the totals an invocation printed, <<>> if it printed none
PrintedTotals(inv) ==
    SelectSeq(inv.out, LAMBDA m : m.kind = "totals")

\* the location a path spec names: the path spec without its @branch suffix
Location(pathSpec) == SplitPathSpec(pathSpec).path

\* the invocation that led to this state went through the loop over its
\* path specs without any error message
CleanRun(inv) ==
    /\ inv.computed
    /\ \A i \in 1..Len(inv.out) : inv.out[i].kind = "totals"

\* the step is an invocation that follows another one directly and is given
\* the same query, both with caching enabled
SameQueryAgain ==
    /\ last.ran /\ last'.ran
    /\ ~ last.noCache /\ ~ last'.noCache
    /\ last'.args = last.args
    /\ last'.authorRegex = last.authorRegex
    /\ last'.remoteName = last.remoteName
    /\ last'.filenamesRegex = last.filenamesRegex
    /\ last'.weekToDate = last.weekToDate
    /\ repos' = repos /\ clock' = clock

\* C1: with caching enabled, when a query is run a second time directly
\* after a first run that printed totals without any error, the repositories
\* being as they were, the second run is served from the cache and prints
\* the totals the first run printed, for every path-spec list including
\* those with an @branch suffix.
C1_SecondRunServedFromCache ==
    [][(SameQueryAgain /\ (last.hit \/ CleanRun(last)))
         => (last'.hit /\ PrintedTotals(last') = PrintedTotals(last))]_vars

\* the HEAD commit of a location as it is now
CurrentHead(path) == RepoHead(PlainOpen(repos, path).repo)

\* entry holds for the location of some path spec of args a fingerprint that
\* is not the commit HEAD resolves to now
Stale(entry, args) ==
    \E i \in 1..Len(args) :
        LET loc == Location(args[i])
        IN /\ loc \in DOMAIN entry.HeadHashes
           /\ ~ CurrentHead(loc).err
           /\ entry.HeadHashes[loc] # CurrentHead(loc).hash

\* C2: when the lookup returns an entry whose fingerprint for some queried
\* location is not that location's current HEAD commit, the invocation is
\* not a hit and computes the totals with the pipeline.
C2_StaleEntryNotServed ==
    (last.ran /\ last.found # <<>> /\ Stale(last.found[1], last.args))
        => (~ last.hit /\ last.computed)

\* an invocation for "./" found an entry that is not too old and whose
\* fingerprint of "./" is stale, and recomputed
C2_Witness ==
    /\ last.ran /\ last.args = <<Dot>> /\ last.found # <<>>
    /\ clock - last.found[1].Timestamp <= CacheTTL
    /\ Stale(last.found[1], last.args)
    /\ last.computed /\ PrintedTotals(last) # <<>>

\* C3: an invocation that saves the cache leaves at most maxCacheSize entries
\* in the file: the entries loaded followed by the new one, without as many
\* of the oldest as exceed maxCacheSize, in the same order, the new entry
\* last.  The file changes only in such a step.
C3_SaveKeepsNewest ==
    [][/\ cacheFile' # cacheFile => last'.stored # <<>>
       /\ (last'.stored # <<>> /\ cacheFile.state # "denied") =>
         LET all == loadCache(cacheFile).Entries \o last'.stored
             new == cacheFile'.Entries
             drop == Len(all) - Len(new)
         IN /\ cacheFile'.state = "ok"
            /\ Len(new) <= maxCacheSize
            /\ Len(new) = IF Len(all) > maxCacheSize THEN maxCacheSize ELSE Len(all)
            /\ \A i \in 1..Len(new) : new[i] = all[i + drop]
            /\ new[Len(new)] = last'.stored[1]]_vars

\* a store into a full cache: the oldest entry is gone, the second oldest is
\* now first and the new entry is last
C3_Witness ==
    /\ last.stored # <<>>
    /\ Len(cacheFile.Entries) = maxCacheSize
    /\ cacheFile.Entries[1] = OldEntry(maxCacheSize - 2)
    /\ cacheFile.Entries[maxCacheSize] = last.stored[1]
    /\ stores = 1

\* C4: when the lookup returns an entry and the entry is valid, the
\* invocation prints the Added and Deleted of the entry and nothing else, and
\* parses, resolves, walks and aggregates nothing.
C4_HitShortCircuits ==
    (last.ran /\ last.found # <<>>
       /\ isCacheValid(last.found[1], last.args, repos, clock))
        => /\ last.out = <<TotalsMsg(last.found[1].Results.Added,
                                     last.found[1].Results.Deleted)>>
           /\ last.trace = <<>>
           /\ last.headHashes = <<>>
           /\ ~ last.computed
           /\ last.stored = <<>>

\* a hit on an entry with non-zero totals that differ from each other
C4_Witness ==
    /\ last.ran /\ last.hit /\ last.found # <<>>
    /\ last.found[1].Results.Added # last.found[1].Results.Deleted
    /\ last.found[1].Results.Deleted > 0
    /\ PrintedTotals(last) # <<>>

----------------------------------------------------------------------------
(* Properties of the pipeline *)

RECURSIVE SetSum(_, _)
SetSum(S, f) ==
    IF S = {} THEN 0
    ELSE LET x == CHOOSE y \in S : TRUE
         IN f[x] + SetSum(S \ {x}, f)

\* the iterations of the loop of the invocation, and the commits each visited
Iterations == 1..Len(last.trace)
Visits(i) == 1..Len(last.trace[i].visited)
Visit(i, j) == last.trace[i].visited[j]

\* iteration i got as far as walking the history
Walked(i) == last.trace[i].err \in {"none", "errProcess"}

\* the file of a commit is one the query asks for
FileWanted(name) ==
    \/ last.filenamesRegex = <<>>
    \/ MatchString(Compile(last.filenamesRegex), name)

\* the lines commit h adds and deletes in the files the query asks for
AddedBy(h) ==
    SetSum(1..Len(Commits[h].Stats),
           [k \in 1..Len(Commits[h].Stats) |->
               IF FileWanted(Commits[h].Stats[k].Name)
               THEN Commits[h].Stats[k].Addition ELSE 0])
DeletedBy(h) ==
    SetSum(1..Len(Commits[h].Stats),
           [k \in 1..Len(Commits[h].Stats) |->
               IF FileWanted(Commits[h].Stats[k].Name)
               THEN Commits[h].Stats[k].Deletion ELSE 0])

IsMerge(h) == Len(Commits[h].ParentHashes) > 1

AuthorMatches(h) ==
    \/ MatchString(Compile(last.authorRegex), Commits[h].Author.Name)
    \/ MatchString(Compile(last.authorRegex), Commits[h].Author.Email)

\* the totals of the commits that are not merges among those the walk of
\* iteration i counted
NonMergeAdded(i) ==
    SetSum(Visits(i), [j \in Visits(i) |->
        IF Visit(i, j).verdict = "counted" /\ ~ IsMerge(Visit(i, j).hash)
        THEN AddedBy(Visit(i, j).hash) ELSE 0])
NonMergeDeleted(i) ==
    SetSum(Visits(i), [j \in Visits(i) |->
        IF Visit(i, j).verdict = "counted" /\ ~ IsMerge(Visit(i, j).hash)
        THEN DeletedBy(Visit(i, j).hash) ELSE 0])

\* C5: no commit with more than one parent is counted, and the totals
\* printed are those of the counted commits with one parent or none.
C5_MergeNeverContributes ==
    last.computed =>
        /\ \A i \in Iterations : \A j \in Visits(i) :
              IsMerge(Visit(i, j).hash) => Visit(i, j).verdict \in {"old", "merge"}
        /\ PrintedTotals(last) =
              <<TotalsMsg(SetSum(Iterations, [i \in Iterations |-> NonMergeAdded(i)]),
                          SetSum(Iterations, [i \in Iterations |-> NonMergeDeleted(i)]))>>

\* an invocation with non-zero totals visited, inside its window, a merge
\* whose author matches and whose files are asked for
C5_Witness ==
    /\ last.computed
    /\ \E i \in Iterations : \E j \in Visits(i) :
          /\ IsMerge(Visit(i, j).hash)
          /\ Visit(i, j).verdict = "merge"
          /\ AuthorMatches(Visit(i, j).hash)
          /\ AddedBy(Visit(i, j).hash) > 0
    /\ \E k \in 1..Len(last.out) : last.out[k].kind = "totals" /\ last.out[k].added > 0

\* the commits that got as far as the author filter
ReachedAuthorFilter(i, j) == Visit(i, j).verdict \in {"author", "counted", "statsErr"}

\* C6: of the commits that reach the author filter, exactly those pass whose
\* author name or author e-mail the pattern matches; one for which it
\* matches neither is not counted.
C6_AuthorNameOrEmail ==
    last.computed =>
        \A i \in Iterations : \A j \in Visits(i) :
            /\ ReachedAuthorFilter(i, j) =>
                  (Visit(i, j).verdict # "author" <=> AuthorMatches(Visit(i, j).hash))
            /\ Visit(i, j).verdict = "counted" => AuthorMatches(Visit(i, j).hash)

\* one walk counted a commit of which only the e-mail matches and rejected
\* a commit of which neither matches
C6_Witness ==
    /\ last.computed
    /\ \E i \in Iterations :
          /\ \E j \in Visits(i) :
                /\ Visit(i, j).verdict = "counted"
                /\ ~ MatchString(Compile(last.authorRegex), Commits[Visit(i, j).hash].Author.Name)
                /\ MatchString(Compile(last.authorRegex), Commits[Visit(i, j).hash].Author.Email)
          /\ \E j \in Visits(i) : Visit(i, j).verdict = "author"

\* t is 00:00:00 of the date of now
MidnightOf(t, now) == t % Day = 0 /\ t <= now /\ now < t + Day

\* a commit is included by the window when the recency cutoff lets it through
Included(i, j) == Visit(i, j).verdict # "old"

\* C7: without weekToDate the window start is local midnight of the date of
\* now, and a commit is excluded exactly when its author timestamp is before
\* it: one at the window start is included, one a second earlier is not.
C7_DayWindow ==
    (last.computed /\ ~ last.weekToDate) =>
        \A i \in Iterations : Walked(i) =>
            /\ MidnightOf(last.trace[i].startTime, last.trace[i].now)
            /\ \A j \in Visits(i) :
                  Included(i, j) <=>
                      Commits[Visit(i, j).hash].When >= last.trace[i].startTime

\* a walk met a commit made at the very window start and counted it, and
\* met a commit made one second earlier and left it out
C7_Witness ==
    /\ last.computed /\ ~ last.weekToDate
    /\ \E i \in Iterations :
          /\ \E j \in Visits(i) :
                /\ Commits[Visit(i, j).hash].When = last.trace[i].startTime
                /\ Visit(i, j).verdict = "counted"
          /\ \E j \in Visits(i) :
                /\ Commits[Visit(i, j).hash].When = last.trace[i].startTime - 1
                /\ Visit(i, j).verdict = "old"

\* t is 00:00:00 of the last Monday that is not after now
MondayOf(t, now) ==
    /\ t % Day = 0 /\ Weekday(t) = 1
    /\ t <= now /\ now < t + 7 * Day

\* C8: with weekToDate, now being a Sunday, the window start is 00:00 of
\* the Monday six days before the date of now, and no commit made before
\* that Monday 00:00 is included.
C8_SundayWindow ==
    (last.computed /\ last.weekToDate) =>
        \A i \in Iterations : (Walked(i) /\ Weekday(last.trace[i].now) = Sunday) =>
            /\ MondayOf(last.trace[i].startTime, last.trace[i].now)
            /\ last.trace[i].startTime = StartOfDay(last.trace[i].now) - 6 * Day
            /\ \A j \in Visits(i) :
                  Included(i, j) =>
                      Commits[Visit(i, j).hash].When >= StartOfDay(last.trace[i].now) - 6 * Day

\* C9: with weekToDate, now being a Monday to a Saturday, the window start is
\* 00:00 of the most recent Monday, the date of now minus (weekday - 1) days,
\* which on a Monday is the start of the day window; a commit is excluded
\* exactly when it was made before it.
C9_WeekWindow ==
    (last.computed /\ last.weekToDate) =>
        \A i \in Iterations :
            (Walked(i) /\ Weekday(last.trace[i].now) \in 1..6) =>
                /\ MondayOf(last.trace[i].startTime, last.trace[i].now)
                /\ last.trace[i].startTime =
                      StartOfDay(last.trace[i].now) - (Weekday(last.trace[i].now) - 1) * Day
                /\ Weekday(last.trace[i].now) = 1 =>
                      MidnightOf(last.trace[i].startTime, last.trace[i].now)
                /\ \A j \in Visits(i) :
                      Included(i, j) <=>
                          Commits[Visit(i, j).hash].When >= last.trace[i].startTime

\* on a Saturday a walk counted the commit made at 00:00:00 of the Monday
\* and left out the one made a second earlier
C9_Witness ==
    /\ last.computed /\ last.weekToDate
    /\ \E i \in Iterations :
          /\ Walked(i) /\ Weekday(last.trace[i].now) = 6
          /\ last.trace[i].startTime = Monday0
          /\ \E j \in Visits(i) :
                Commits[Visit(i, j).hash].When = Monday0 /\ Visit(i, j).verdict = "counted"
          /\ \E j \in Visits(i) :
                Commits[Visit(i, j).hash].When = Monday0 - 1 /\ Visit(i, j).verdict = "old"


\* the commits reachable from the commits in S over the parent links
RECURSIVE Ancestors(_)
Ancestors(S) ==
    LET next == S \cup {p \in Hashes : \E h \in S : InSeq(p, Commits[h].ParentHashes)}
    IN IF next = S THEN S ELSE Ancestors(next)

\* the commits of the history of iteration i that are in its window, are
\* not merges and match the author pattern
Eligible(i) ==
    {h \in Ancestors({last.trace[i].hash}) :
        /\ Commits[h].When >= last.trace[i].startTime
        /\ ~ IsMerge(h)
        /\ AuthorMatches(h)}

\* the totals of path spec i by itself: those of the eligible commits of
\* the history of its starting commit, nothing if it was not resolved
OwnAdded(i) ==
    IF last.trace[i].err # "none" THEN 0
    ELSE SetSum(Eligible(i), [h \in Eligible(i) |-> AddedBy(h)])
OwnDeleted(i) ==
    IF last.trace[i].err # "none" THEN 0
    ELSE SetSum(Eligible(i), [h \in Eligible(i) |-> DeletedBy(h)])

\* C10: when no walk fails, the totals printed are the sum over the path
\* specs of the totals of each by itself, computed from its own starting
\* commit; a commit in the history of two path specs counts in both.
C10_TotalsAreSumOverPathSpecs ==
    (last.computed /\ \A i \in Iterations : last.trace[i].err # "errProcess") =>
        /\ Len(last.trace) = Len(last.args)
        /\ PrintedTotals(last) =
              <<TotalsMsg(SetSum(Iterations, [i \in Iterations |-> OwnAdded(i)]),
                          SetSum(Iterations, [i \in Iterations |-> OwnDeleted(i)]))>>

\* ./@m and ./@f were walked from different commits, one commit was counted
\* in both walks and each walk counted a commit the other did not
C10_Witness ==
    /\ last.computed
    /\ last.args = <<MainSpec, FeatureSpec>>
    /\ last.trace[1].err = "none" /\ last.trace[2].err = "none"
    /\ last.trace[1].hash # last.trace[2].hash
    /\ Eligible(1) \cap Eligible(2) # {}
    /\ Eligible(1) \ Eligible(2) # {}
    /\ \E k \in 1..Len(last.out) :
          /\ last.out[k].kind = "totals"
          /\ last.out[k].added = OwnAdded(1) + OwnAdded(2)
          /\ OwnAdded(1) > 0 /\ OwnAdded(2) > 0

----------------------------------------------------------------------------
(* Properties of the error handling *)

\* the reference path spec i starts from, by the rules of lines.go:95-121
StartRef(i) ==
    LET branch == SplitPathSpec(last.args[i]).branch
    IN IF branch = <<>> THEN repos[Location(last.args[i])].HEAD
       ELSE IF last.remoteName # <<>>
            THEN <<"refs/remotes/">> \o last.remoteName \o <<"/">> \o branch
            ELSE <<"refs/heads/">> \o branch

\* path spec i names no repository, or a reference the repository lacks
CannotResolve(i) ==
    \/ Location(last.args[i]) \notin DOMAIN repos
    \/ StartRef(i) \notin DOMAIN repos[Location(last.args[i])].refs

\* the lines of the commits the walk of iteration i counted
CountedAdded(i) ==
    SetSum(Visits(i), [j \in Visits(i) |->
        IF Visit(i, j).verdict = "counted" THEN AddedBy(Visit(i, j).hash) ELSE 0])
CountedDeleted(i) ==
    SetSum(Visits(i), [j \in Visits(i) |->
        IF Visit(i, j).verdict = "counted" THEN DeletedBy(Visit(i, j).hash) ELSE 0])

\* the error messages of the invocation, in the order printed
ErrorsPrinted ==
    SelectSeq(last.out, LAMBDA m : m.kind \in {"errOpen", "errHead", "errBranch",
                                                "errLog", "errProcess"})

\* the iterations that ended with an error, in order
Failed(i) == last.trace[i].err # "none"
NumFailedUpTo(i) == Cardinality({k \in 1..i : Failed(k)})

\* C11: a path spec whose location cannot be opened or whose HEAD, branch or
\* remote-tracking reference cannot be resolved gets an error message of its
\* own and no commit of it is visited; every path spec of the query is
\* taken in the order given, the others from the commit their reference
\* points at; and the invocation ends by printing the totals, which are
\* those of the commits counted for the other path specs.
C11_ResolutionFailureSkipsLocation ==
    last.computed =>
        /\ Len(last.trace) = Len(last.args)
        /\ \A i \in Iterations :
              /\ last.trace[i].pathSpec = last.args[i]
              /\ CannotResolve(i) =>
                    /\ last.trace[i].err \in {"errOpen", "errHead", "errBranch"}
                    /\ last.trace[i].visited = <<>>
                    /\ ErrorsPrinted[NumFailedUpTo(i)] =
                          Msg(last.trace[i].err, Location(last.args[i]))
              /\ ~ CannotResolve(i) =>
                    /\ last.trace[i].err \in {"none", "errLog", "errProcess"}
                    /\ last.trace[i].hash =
                          repos[Location(last.args[i])].refs[StartRef(i)]
        /\ last.out[Len(last.out)] =
              TotalsMsg(SetSum(Iterations, [i \in Iterations |-> CountedAdded(i)]),
                        SetSum(Iterations, [i \in Iterations |-> CountedDeleted(i)]))
        /\ Len(PrintedTotals(last)) = 1

\* "nowhere" could not be opened, "../o" after it was walked and its commits
\* make the totals
C11_Witness ==
    /\ last.computed
    /\ last.args = <<Nowhere, Other>>
    /\ last.trace[1].err = "errOpen"
    /\ last.trace[2].err = "none"
    /\ CountedAdded(2) > 0
    /\ last.out[Len(last.out)].kind = "totals"
    /\ last.out[Len(last.out)].added = CountedAdded(2)

\* the totals of the path specs that were processed without any error
SucceededAdded ==
    SetSum(Iterations, [i \in Iterations |-> IF Failed(i) THEN 0 ELSE CountedAdded(i)])
SucceededDeleted ==
    SetSum(Iterations, [i \in Iterations |-> IF Failed(i) THEN 0 ELSE CountedDeleted(i)])

\* C12: the totals printed are those of the commits counted for the path
\* specs that were processed without error; a path spec whose walk could not
\* be started or ended with an error adds nothing to them, not even for the
\* commits counted before the error.
C12_TotalsOnlyFromSucceeded ==
    last.computed =>
        last.out[Len(last.out)] = TotalsMsg(SucceededAdded, SucceededDeleted)

\* the pattern for the file names, or the pattern for the authors, does not
\* compile
BadFilenamesRegex == last.filenamesRegex # <<>> /\ Compile(last.filenamesRegex).err
BadAuthorRegex == Compile(last.authorRegex).err

\* C13: an invocation given a pattern that does not compile prints the
\* compile error of the file name pattern, or else that of the author
\* pattern, and nothing else: no totals; it visits no path spec, and no
\* entry is added to the cache, which stays as it was.
C13_BadPatternAborts ==
    (last.ran /\ (BadFilenamesRegex \/ BadAuthorRegex)) =>
        /\ last.out = <<Msg(IF BadFilenamesRegex THEN "errFilenameRegex"
                            ELSE "errAuthorRegex", <<>>)>>
        /\ PrintedTotals(last) = <<>>
        /\ ~ last.computed /\ last.trace = <<>>
        /\ last.stored = <<>>
        /\ stores = 0 /\ cacheFile = NoFile

\* with caching enabled, an invocation with the file name pattern "(" and
\* a good author pattern printed the compile error only
C13_Witness ==
    /\ last.ran /\ ~ last.noCache
    /\ last.filenamesRegex = <<"(">> /\ last.authorRegex = <<"A">>
    /\ last.args = <<MainSpec>>
    /\ last.out = <<Msg("errFilenameRegex", <<>>)>>
    /\ cacheFile = NoFile

----------------------------------------------------------------------------
(* Properties of the entries stored *)

\* the locations the path specs in paths name
Locations(paths) == {Location(paths[i]) : i \in 1..Len(paths)}

\* C14: an invocation stores an entry only when every path spec of the
\* query went through the loop without an error: opened, resolved, walked
\* and aggregated.
C14_EntryOnlyAfterFullSuccess ==
    (last.ran /\ last.stored # <<>>) =>
        /\ Len(last.trace) = Len(last.args)
        /\ \A i \in Iterations : ~ Failed(i)

\* C15: the HeadHashes of an entry an invocation stores has the locations
\* of the path specs of the entry as its keys, each path spec without its
\* @branch suffix, none of them missing.
C15_HeadHashesCoverLocations ==
    (last.ran /\ last.stored # <<>>) =>
        DOMAIN last.stored[1].HeadHashes = Locations(last.stored[1].Paths)

----------------------------------------------------------------------------
(* Properties of the cache file *)

\* the step is an invocation with caching enabled
CachedInvocation == last'.ran /\ ~ last'.noCache

\* the warnings among what the invocation of the step printed
WarningsPrinted ==
    SelectSeq(last'.out, LAMBDA m : m.kind \in {"warnLoad", "warnSave"})

\* C16: an invocation that finds a cache file it cannot read or cannot parse
\* prints the warning first, treats the query as a miss and computes the
\* totals with the pipeline, and leaves the file as it found it.
C16_UnreadableCacheLeftAlone ==
    [][(CachedInvocation /\ cacheFile.state \in {"corrupt", "denied"}) =>
          /\ last'.out[1] = Msg("warnLoad", <<>>)
          /\ last'.found = <<>> /\ ~ last'.hit
          /\ last'.computed /\ PrintedTotals(last') # <<>>
          /\ cacheFile' = cacheFile]_vars

\* C17: an invocation that finds no cache file loads an empty cache without
\* an error: it prints no warning, finds no entry, computes the totals with
\* the pipeline as on any miss, and leaves a file that holds the entry of
\* this invocation alone.
C17_MissingFileIsEmptyCache ==
    [][(CachedInvocation /\ cacheFile.state = "absent") =>
          /\ loadCache(cacheFile) = [err |-> FALSE, Entries |-> <<>>]
          /\ WarningsPrinted = <<>>
          /\ last'.found = <<>> /\ ~ last'.hit
          /\ last'.computed /\ PrintedTotals(last') # <<>>
          /\ cacheFile' = [state |-> "ok", Entries |-> last'.stored]
          /\ Len(last'.stored) = 1]_vars

\* an invocation printed totals and no warning, found nothing, and the
\* file holds its entry alone: there was no file before
C17_Witness ==
    /\ last.ran /\ ~ last.noCache /\ last.computed
    /\ last.found = <<>>
    /\ \A k \in 1..Len(last.out) : last.out[k].kind = "totals"
    /\ Len(last.out) = 1 /\ last.out[1].added > 0
    /\ cacheFile = [state |-> "ok", Entries |-> last.stored]
    /\ Len(last.stored) = 1

\* the entries of the cache file of the step that are equal to the query of
\* the invocation in every field
EqualEntries ==
    {i \in 1..Len(cacheFile.Entries) :
        /\ cacheFile.Entries[i].Paths = last'.args
        /\ cacheFile.Entries[i].Args =
              [AuthorRegex |-> last'.authorRegex, RemoteName |-> last'.remoteName,
               FilenamesRegex |-> last'.filenamesRegex, WeekToDate |-> last'.weekToDate]}

\* C18: the lookup of an invocation returns, of the entries whose author
\* pattern, remote name, file name pattern, weekToDate flag and list of path
\* specs are equal to those of the query, the one stored last, and nothing
\* when there is none; an entry whose path list is a permutation, a prefix
\* or an extension of the query's is not equal to it.
C18_LookupReturnsNewestEqualEntry ==
    [][(CachedInvocation /\ cacheFile.state = "ok") =>
          IF EqualEntries = {} THEN last'.found = <<>>
          ELSE \E i \in EqualEntries :
                  /\ \A k \in EqualEntries : k <= i
                  /\ last'.found = <<cacheFile.Entries[i]>>]_vars

\* the file holds two different entries for the query of the invocation, a
\* hit, which was served from the second
C18_Witness ==
    /\ last.ran /\ last.hit
    /\ Len(cacheFile.Entries) = 2
    /\ cacheFile.Entries[1] # cacheFile.Entries[2]
    /\ \A i \in 1..2 :
          /\ cacheFile.Entries[i].Paths = last.args
          /\ cacheFile.Entries[i].Args.AuthorRegex = last.authorRegex
          /\ cacheFile.Entries[i].Args.WeekToDate = last.weekToDate
    /\ last.found = <<cacheFile.Entries[2]>>

\* the age of the entry the lookup returned, at the time of the invocation
FoundAge == last.nows[1] - last.found[1].Timestamp

\* every fingerprint of the entry found is the HEAD of its location now
FingerprintsCurrent ==
    \A i \in 1..Len(last.args) : PathStillValid(last.found[1], last.args[i], repos)

\* C19: an entry stored more than 24 hours before the invocation is not
\* served, whatever its fingerprints, and the totals are computed; an entry
\* of 24 hours or less whose fingerprints are all current is served.
C19_TooOldNeverServed ==
    (last.ran /\ last.found # <<>>) =>
        /\ FoundAge > 24 * Hour => (~ last.hit /\ last.computed)
        /\ (FoundAge <= 24 * Hour /\ FingerprintsCurrent) => last.hit

\* a hit on an entry that is exactly 24 hours old
C19_Witness ==
    /\ last.ran /\ last.found # <<>>
    /\ FoundAge = 24 * Hour
    /\ last.hit /\ PrintedTotals(last) # <<>>

\* the entry found has no fingerprint for the location of path spec i, or
\* the location holds no repository now, or its HEAD resolves to nothing
Unverifiable(i) ==
    LET loc == Location(last.args[i])
    IN \/ loc \notin DOMAIN last.found[1].HeadHashes
       \/ loc \notin DOMAIN repos
       \/ repos[loc].HEAD \notin DOMAIN repos[loc].refs

\* C20: an entry is not served when, for some path spec of the query, the
\* entry has no fingerprint of its location, or the location cannot be
\* opened, or its HEAD cannot be resolved; the totals are computed instead.
C20_UnverifiableNeverServed ==
    (last.ran /\ last.found # <<>> /\ \E i \in 1..Len(last.args) : Unverifiable(i))
        => (~ last.hit /\ last.computed)

\* a fresh entry with a fingerprint for "./" that is current and one for
\* "../o", which is no longer there: not served
C20_Witness ==
    /\ last.ran /\ last.found # <<>>
    /\ FoundAge <= 24 * Hour
    /\ last.args = <<Dot, Other>>
    /\ DOMAIN last.found[1].HeadHashes = {Dot, Other}
    /\ Other \notin DOMAIN repos
    /\ PathStillValid(last.found[1], Dot, repos)
    /\ ~ last.hit /\ last.computed

----------------------------------------------------------------------------
(* Properties of the path specs *)

\* C21: a path spec without "@" is the location as it stands, it has no
\* branch, and the walk starts at the commit HEAD resolves to; a path spec
\* with "@" is the location, an "@" and the branch, and the branch holds no
\* "@": the cut is at the last one.
C21_SplitAtLastAt ==
    last.computed =>
        /\ Len(last.trace) = Len(last.args)
        /\ \A i \in Iterations :
              LET pathSpec == last.args[i]
                  t == last.trace[i]
              IN IF ~ InSeq("@", pathSpec)
                 THEN /\ t.path = pathSpec /\ t.branch = <<>>
                      /\ t.err = "none" =>
                            t.hash = repos[pathSpec].refs[repos[pathSpec].HEAD]
                 ELSE /\ pathSpec = t.path \o <<"@">> \o t.branch
                      /\ ~ InSeq("@", t.branch)

\* "./@m@m" was walked from branch m of the repository in "./@m"
C21_Witness ==
    /\ last.computed
    /\ last.args = <<MainSpec \o <<"@", "m">>>>
    /\ last.trace[1].path = MainSpec /\ last.trace[1].branch = <<"m">>
    /\ last.trace[1].err = "none" /\ last.trace[1].hash = "j2"
    /\ last.out[Len(last.out)].added > 0

\* path spec i is the last one of the query that names its location and
\* could be resolved
LastResolvedFor(i) ==
    /\ ~ CannotResolve(i)
    /\ \A k \in Iterations :
          (k > i /\ Location(last.args[k]) = Location(last.args[i])) => CannotResolve(k)

\* C22: the starting commit of a path spec is the commit of HEAD when it has
\* no branch, of refs/heads/branch when it has a branch and no remote name
\* is given, and of refs/remotes/remote/branch when both are given; the walk
\* visits that commit first, and it is the fingerprint recorded under the
\* location (the one of the last path spec naming the location, when there
\* are several); nothing is recorded for a path spec that is not resolved.
C22_StartCommitAndFingerprint ==
    last.computed =>
        /\ \A i \in Iterations : ~ CannotResolve(i) =>
              /\ last.trace[i].hash = repos[Location(last.args[i])].refs[StartRef(i)]
              /\ last.trace[i].visited # <<>> =>
                    last.trace[i].visited[1].hash = last.trace[i].hash
              /\ Location(last.args[i]) \in DOMAIN last.headHashes
              /\ LastResolvedFor(i) =>
                    last.headHashes[Location(last.args[i])] = last.trace[i].hash
        /\ DOMAIN last.headHashes =
              {Location(last.args[i]) : i \in {k \in Iterations : ~ CannotResolve(k)}}
        /\ last.stored # <<>> => last.stored[1].HeadHashes = last.headHashes

\* with the remote name origin, "./@m" was walked from the commit of
\* refs/remotes/origin/m, which is not the commit of refs/heads/m, and that
\* commit is the fingerprint stored
C22_Witness ==
    /\ last.computed /\ last.stored # <<>>
    /\ last.args = <<MainSpec>> /\ last.remoteName = <<"origin">>
    /\ last.trace[1].err = "none"
    /\ last.trace[1].hash = repos[Dot].refs[RefOriginMain]
    /\ last.trace[1].hash # repos[Dot].refs[RefMain]
    /\ last.trace[1].visited[1].hash = last.trace[1].hash
    /\ last.stored[1].HeadHashes[Dot] = last.trace[1].hash

----------------------------------------------------------------------------
(* Properties of the aggregation *)

\* the files of commit h that count: all of them without a file name
\* pattern, else those whose path the pattern matches
CountingFiles(h) ==
    {k \in 1..Len(Commits[h].Stats) :
        \/ last.filenamesRegex = <<>>
        \/ MatchString(Compile(last.filenamesRegex), Commits[h].Stats[k].Name)}

\* the commits counted in iteration i, by position in the walk
CountedVisits(i) == {j \in Visits(i) : Visit(i, j).verdict = "counted"}

\* the lines added and deleted in the counting files of the commits counted
\* in iteration i
FilesAdded(i) ==
    SetSum(CountedVisits(i), [j \in CountedVisits(i) |->
        SetSum(CountingFiles(Visit(i, j).hash),
               [k \in CountingFiles(Visit(i, j).hash) |->
                   Commits[Visit(i, j).hash].Stats[k].Addition])])
FilesDeleted(i) ==
    SetSum(CountedVisits(i), [j \in CountedVisits(i) |->
        SetSum(CountingFiles(Visit(i, j).hash),
               [k \in CountingFiles(Visit(i, j).hash) |->
                   Commits[Visit(i, j).hash].Stats[k].Deletion])])

\* C23: the totals are the added and deleted lines of the files of the
\* commits that passed the commit filters: with a file name pattern, of
\* exactly the files whose path it matches, without one, of every file of
\* those commits.
C23_FilenamePatternSelectsFiles ==
    last.computed =>
        /\ PrintedTotals(last) =
              <<TotalsMsg(SetSum(Iterations, [i \in Iterations |-> FilesAdded(i)]),
                          SetSum(Iterations, [i \in Iterations |-> FilesDeleted(i)]))>>
        /\ last.filenamesRegex = <<>> =>
              \A h \in Hashes : CountingFiles(h) = 1..Len(Commits[h].Stats)

\* with the pattern ".py" a commit with a .py file and a .txt file was
\* counted, and the totals are those of the .py file alone
C23_Witness ==
    /\ last.computed /\ last.filenamesRegex = <<".py">>
    /\ Len(last.trace) = 1
    /\ CountedVisits(1) # {}
    /\ \A j \in CountedVisits(1) : Visit(1, j).hash = "k4"
    /\ CountingFiles("k4") = {1}
    /\ Len(Commits["k4"].Stats) = 2
    /\ PrintedTotals(last) = <<TotalsMsg(Commits["k4"].Stats[1].Addition,
                                          Commits["k4"].Stats[1].Deletion)>>

----------------------------------------------------------------------------
(* Properties of the cache updates *)

\* the invocation of the step had caching enabled and went through the
\* pipeline: it completed as a miss
CompletedMiss == ~ last'.noCache /\ last'.computed

\* C24: an invocation appends one entry or none.  It appends one, and
\* leaves a file that holds the entries it loaded followed by that one,
\* when caching is enabled and it completed as a miss (a file that cannot
\* be written stays as it is); in every other case, a hit among them, it
\* appends nothing and the file is as before, the entry served included,
\* timestamp and all.
C24_OneEntryPerMiss ==
    [][last'.ran =>
          /\ Len(last'.stored) <= 1
          /\ stores' = stores + Len(last'.stored)
          /\ CompletedMiss =>
                /\ Len(last'.stored) = 1
                /\ cacheFile.state # "denied" =>
                      cacheFile' = [state |-> "ok",
                                    Entries |-> loadCache(cacheFile).Entries \o last'.stored]
                /\ cacheFile.state = "denied" => cacheFile' = cacheFile
          /\ ~ CompletedMiss => (last'.stored = <<>> /\ cacheFile' = cacheFile)
          /\ last'.hit =>
                /\ ~ CompletedMiss
                /\ \E i \in 1..Len(cacheFile'.Entries) :
                      cacheFile'.Entries[i] = last'.found[1]]_vars

\* a hit on an entry stored an hour before: nothing was appended, and the
\* entry is in the file with the timestamp it had
C24_Witness ==
    /\ last.ran /\ last.hit /\ last.stored = <<>> /\ stores = 0
    /\ last.found[1].Timestamp = clock - Hour
    /\ \E i \in 1..Len(cacheFile.Entries) : cacheFile.Entries[i] = last.found[1]
    /\ \A i \in 1..Len(cacheFile.Entries) : cacheFile.Entries[i].Timestamp < clock

\* C25: an invocation with caching disabled leaves the cache file as it is,
\* whatever its state, prints no warning about it, looks up no entry and
\* stores none, and computes the totals with the pipeline over every path
\* spec, also when the file holds a valid entry for the query.
C25_NoCacheLeavesCacheAlone ==
    [][(last'.ran /\ last'.noCache) =>
          /\ cacheFile' = cacheFile /\ stores' = stores
          /\ WarningsPrinted = <<>>
          /\ last'.found = <<>> /\ ~ last'.hit /\ last'.stored = <<>>
          /\ last'.computed /\ Len(last'.trace) = Len(last'.args)
          /\ Len(PrintedTotals(last')) = 1]_vars

\* the entry of the cache file that the query of the invocation would get
ValidEntryFor ==
    findMatchingCacheEntry(cacheFile.Entries, last.args, last.authorRegex,
                           last.remoteName, last.filenamesRegex, last.weekToDate)

\* with caching disabled the pipeline ran although the file holds a valid
\* entry for the query
C25_Witness ==
    /\ last.ran /\ last.noCache /\ last.computed
    /\ cacheFile.state = "ok"
    /\ ValidEntryFor # 0
    /\ isCacheValid(cacheFile.Entries[ValidEntryFor], last.args, repos, clock)
    /\ last.trace # <<>> /\ PrintedTotals(last) # <<>>

----------------------------------------------------------------------------
(* Properties of processes side by side *)

\* both processes are at their end, both stored an entry, and each had
\* loaded the cache before the other saved it: both loaded the same entries
Raced ==
    /\ DOMAIN procs = RaceProcs
    /\ \A p \in RaceProcs : procs[p].done /\ procs[p].stored # <<>>
    /\ procs[1].entries = procs[2].entries

\* the process that saved last, and the other one
LastWriter == CHOOSE p \in RaceProcs : procs[p].rank = 2
FirstWriter == CHOOSE p \in RaceProcs : procs[p].rank = 1

\* entry e is in the cache file
InFile(e) == \E i \in 1..Len(cacheFile.Entries) : cacheFile.Entries[i] = e

\* C26: when two processes have each loaded the cache before the other
\* saved it and each stored a new entry, the file holds what they loaded
\* followed by the entry of the process that saved last, and nothing else:
\* one entry more than was loaded, not two, the entry of the other process
\* not among them unless it is the same entry; and neither process printed
\* a warning.
C26_LastWriterWins ==
    Raced =>
        /\ cacheFile.Entries =
              procs[LastWriter].entries \o procs[LastWriter].stored
        /\ Len(cacheFile.Entries) = Len(procs[FirstWriter].entries) + 1
        /\ procs[FirstWriter].stored # procs[LastWriter].stored =>
              ~ InFile(procs[FirstWriter].stored[1])
        /\ \A p \in RaceProcs : \A k \in 1..Len(procs[p].out) :
              procs[p].out[k].kind = "totals"

\* two processes with different queries raced, both printed their totals,
\* and the entry of the one that saved first is not in the file
C26_Witness ==
    /\ Raced
    /\ procs[1].args # procs[2].args
    /\ procs[FirstWriter].stored # procs[LastWriter].stored
    /\ ~ InFile(procs[FirstWriter].stored[1])
    /\ InFile(procs[LastWriter].stored[1])
    /\ Len(cacheFile.Entries) = 2
    /\ stores = 2

----------------------------------------------------------------------------
(* Properties of the window and the walk *)

\* iteration i got as far as computing its window start
Windowed(i) == last.trace[i].err \in {"none", "errLog", "errProcess"}

\* C27: the path specs of one invocation are all filtered against one
\* window start, that of the instant the invocation began, also when
\* midnight passes between two iterations.
C27_OneWindowPerInvocation ==
    last.computed =>
        \A i \in Iterations : Windowed(i) =>
            last.trace[i].startTime = StartTime(last.nows[1], last.weekToDate)

\* the commits iteration i visited
VisitedHashes(i) == {Visit(i, j).hash : j \in Visits(i)}

\* C28: a walk that ends without an error has examined every commit that
\* can be reached from its starting commit, each once, whatever the age of
\* the commits met on the way; and every commit among them that is in the
\* window, is not a merge and matches the author pattern was counted.
C28_WalkExaminesWholeHistory ==
    last.computed =>
        \A i \in Iterations : last.trace[i].err = "none" =>
            /\ VisitedHashes(i) = Ancestors({last.trace[i].hash})
            /\ Len(last.trace[i].visited) = Cardinality(VisitedHashes(i))
            /\ \A j \in Visits(i) :
                  (/\ Commits[Visit(i, j).hash].When >= last.trace[i].startTime
                   /\ ~ IsMerge(Visit(i, j).hash)
                   /\ AuthorMatches(Visit(i, j).hash))
                      => Visit(i, j).verdict = "counted"

\* a walk met a commit older than the window start, went on, counted a
\* commit after it, and the lines of that commit are in the totals
C28_Witness ==
    /\ last.computed /\ Len(last.trace) = 1
    /\ last.trace[1].err = "none"
    /\ \E j, k \in Visits(1) :
          /\ j < k
          /\ Visit(1, j).verdict = "old"
          /\ Visit(1, k).verdict = "counted"
          /\ AddedBy(Visit(1, k).hash) > 0
          /\ last.out[Len(last.out)].added >= AddedBy(Visit(1, k).hash)

\* the filter that rejects the commit of visit j of iteration i when the
\* filters are taken in the order recency, merge, author
FirstRejection(i, j) ==
    IF Commits[Visit(i, j).hash].When < last.trace[i].startTime THEN "old"
    ELSE IF IsMerge(Visit(i, j).hash) THEN "merge"
    ELSE IF ~ AuthorMatches(Visit(i, j).hash) THEN "author"
    ELSE "none"

\* C29: a commit is rejected by the first of the filters recency, merge,
\* author that fails for it; its statistics are asked for only when none
\* fails, so that a commit whose statistics cannot be computed but which a
\* filter rejects causes no error: a walk of readable commit objects ends
\* with an error exactly when the statistics of a commit that passed all
\* three filters fail.
C29_FiltersBeforeStatistics ==
    last.computed =>
        \A i \in Iterations : Walked(i) =>
            /\ \A j \in Visits(i) :
                  /\ FirstRejection(i, j) # "none" =>
                        Visit(i, j).verdict = FirstRejection(i, j)
                  /\ FirstRejection(i, j) = "none" =>
                        Visit(i, j).verdict =
                            IF Visit(i, j).hash \in unreadable.tree
                            THEN "statsErr" ELSE "counted"
            /\ unreadable.object = {} =>
                  (last.trace[i].err = "errProcess" <=>
                      \E j \in Visits(i) :
                          /\ FirstRejection(i, j) = "none"
                          /\ Visit(i, j).hash \in unreadable.tree)

\* a walk met a commit whose statistics cannot be computed and which the
\* author filter rejected, counted another commit, and ended without an
\* error
C29_Witness ==
    /\ last.computed /\ Len(last.trace) = 1
    /\ last.trace[1].err = "none"
    /\ \E j, k \in Visits(1) :
          /\ Visit(1, j).hash \in unreadable.tree
          /\ Visit(1, j).verdict = "author"
          /\ Visit(1, k).verdict = "counted"
    /\ Len(last.out) = 1 /\ last.out[1].kind = "totals"

----------------------------------------------------------------------------
(* Properties of what a hit prints *)

\* what the pipeline computes for the query of the last invocation at the
\* time of that invocation, the repositories being as they are: the
\* invocation repeated with --no-cache
Uncached ==
    Run(last.args, last.authorRegex, last.remoteName, last.filenamesRegex,
        last.weekToDate, TRUE, last.nows, repos, unreadable, cacheFile)

\* C31: an invocation served from the cache prints the totals the pipeline
\* would compute at that moment for the same query and the same
\* repositories, also when midnight, or the start of the week, lies between
\* the invocation that stored the entry and the one served from it.
C31_HitPrintsWhatPipelineComputes ==
    (last.ran /\ last.hit) => PrintedTotals(last) = PrintedTotals(Uncached)


\* some path spec of the invocation holds an "@"
HasSuffixedSpec(inv) ==
    \E i \in 1..Len(inv.args) : Contains(inv.args[i], <<"@">>)

\* C32: an invocation with caching enabled whose list of path specs holds a
\* path spec with an "@" is never served from the cache, whatever entries
\* the cache holds: it computes the totals with the pipeline and appends a
\* new entry, which is the last of the file it leaves unless the file
\* cannot be written.
C32_SuffixedSpecNeverServed ==
    (last.ran /\ ~ last.noCache /\ HasSuffixedSpec(last)) =>
        /\ ~ last.hit
        /\ last.computed
        /\ Len(last.stored) = 1
        /\ cacheFile.state # "denied" =>
              /\ cacheFile.Entries # <<>>
              /\ cacheFile.Entries[Len(cacheFile.Entries)] = last.stored[1]

\* the lookup returned an entry of at most 24 hours for <<"./@m">> whose
\* fingerprint of "./" is the HEAD of "./" now, and a directory "./@m" holds
\* a repository: the totals were computed and a second entry stored
C32_Witness ==
    /\ last.ran /\ ~ last.noCache /\ last.args = <<MainSpec>>
    /\ last.found # <<>>
    /\ last.nows[1] - last.found[1].Timestamp <= CacheTTL
    /\ last.found[1].HeadHashes[Dot] = CurrentHead(Dot).hash
    /\ ~ PlainOpen(repos, MainSpec).err
    /\ ~ last.hit /\ last.computed
    /\ Len(cacheFile.Entries) >= 2
    /\ cacheFile.Entries[Len(cacheFile.Entries)] = last.stored[1]


----------------------------------------------------------------------------
(* Properties of entries with equal queries *)

\* the entry stored last among those of the cache file of the step that are
\* equal to the query of the invocation
NewestEqual ==
    cacheFile.Entries[CHOOSE i \in EqualEntries : \A k \in EqualEntries : k <= i]

\* C33: of the entries equal to the query only the one stored last is
\* checked for validity: when it is valid it is served, and when it is not
\* the invocation is a miss and computes the totals, also when an older
\* entry equal to the query is valid.
C33_OnlyNewestEntryChecked ==
    [][(CachedInvocation /\ cacheFile.state = "ok" /\ EqualEntries # {}) =>
          /\ last'.found = <<NewestEqual>>
          /\ last'.hit = isCacheValid(NewestEqual, last'.args, repos, last'.nows[1])
          /\ ~ last'.hit => last'.computed]_vars

\* HEAD of "./" moved away and back within 24 hours: the cache held an entry
\* for the query with the present HEAD, valid now, and a later one with
\* another HEAD; the lookup returned the later one and the totals were
\* computed and stored in a third entry
C33_Witness ==
    /\ last.ran /\ ~ last.hit /\ last.computed
    /\ Len(cacheFile.Entries) = 3
    /\ \A i \in 1..3 :
          /\ cacheFile.Entries[i].Paths = last.args
          /\ cacheFile.Entries[i].Args.AuthorRegex = last.authorRegex
          /\ cacheFile.Entries[i].Args.RemoteName = last.remoteName
          /\ cacheFile.Entries[i].Args.FilenamesRegex = last.filenamesRegex
          /\ cacheFile.Entries[i].Args.WeekToDate = last.weekToDate
    /\ last.found = <<cacheFile.Entries[2]>>
    /\ last.stored = <<cacheFile.Entries[3]>>
    /\ isCacheValid(cacheFile.Entries[1], last.args, repos, last.nows[1])
    /\ ~ isCacheValid(cacheFile.Entries[2], last.args, repos, last.nows[1])
    /\ last.nows[1] - cacheFile.Entries[2].Timestamp <= CacheTTL


\* the last n elements of a sequence
LastN(s, n) == SubSeq(s, Len(s) - n + 1, Len(s))

\* the smaller of two numbers
Min(a, b) == IF a <= b THEN a ELSE b

\* C34: no step takes an entry out of the cache or changes one, except that
\* a save drops the oldest entries beyond maxCacheSize: the file changes
\* only when an invocation stores an entry, and then it holds the entries it
\* held, in their order, followed by the new one, cut to the last
\* maxCacheSize.  This is so too when the invocation found an entry for its
\* query and rejected it; a lookup for the query in the file it leaves
\* returns the new entry, the last of the file.
C34_EntriesLeaveOnlyByTrim ==
    [][/\ cacheFile' # cacheFile => (last'.ran /\ last'.stored # <<>>)
       /\ (last'.ran /\ last'.stored # <<>> /\ cacheFile.state # "denied") =>
             LET all == Append(loadCache(cacheFile).Entries, last'.stored[1])
             IN /\ cacheFile'.Entries = LastN(all, Min(Len(all), maxCacheSize))
                /\ findMatchingCacheEntry(cacheFile'.Entries, last'.args,
                                          last'.authorRegex, last'.remoteName,
                                          last'.filenamesRegex, last'.weekToDate)
                      = Len(cacheFile'.Entries)]_vars

\* a full cache after two invocations with the same query: the second found
\* the entry of the first, which was more than 24 hours old, and stored its
\* own behind it; both are in the file, which holds maxCacheSize entries
C34_Witness ==
    /\ last.ran /\ last.found # <<>> /\ ~ last.hit /\ last.computed
    /\ stores = 2
    /\ last.nows[1] - last.found[1].Timestamp > CacheTTL
    /\ Len(cacheFile.Entries) = maxCacheSize
    /\ cacheFile.Entries[maxCacheSize - 1] = last.found[1]
    /\ cacheFile.Entries[maxCacheSize] = last.stored[1]
    /\ EntryMatches(last.found[1], last.args, last.authorRegex, last.remoteName,
                    last.filenamesRegex, last.weekToDate)
    /\ EntryMatches(last.stored[1], last.args, last.authorRegex, last.remoteName,
                    last.filenamesRegex, last.weekToDate)


----------------------------------------------------------------------------
(* Properties of locations named more than once *)

\* the path specs of the last invocation that name location loc and were
\* resolved to a commit
ResolvedFor(loc) ==
    {i \in Iterations : Location(last.args[i]) = loc /\ ~ CannotResolve(i)}

\* C35: when several path specs of a query name the same location, the
\* entry stored holds for that location the commit of the last of them that
\* was resolved, not the commits of the earlier ones.
C35_LastResolvedSpecSetsFingerprint ==
    (last.ran /\ last.stored # <<>>) =>
        \A i \in Iterations :
            LET loc == Location(last.args[i])
                named == ResolvedFor(loc)
            IN named # {} =>
                  \E k \in named :
                      /\ \A j \in named : j <= k
                      /\ last.stored[1].HeadHashes[loc] = last.trace[k].hash

\* "./@m" and "./@f" name "./" and were resolved to different commits; the
\* entry stored holds the commit of "./@f"
C35_Witness ==
    /\ last.ran /\ last.stored # <<>>
    /\ last.args = <<MainSpec, FeatureSpec>>
    /\ ResolvedFor(Dot) = {1, 2}
    /\ last.trace[1].hash # last.trace[2].hash
    /\ last.stored[1].HeadHashes[Dot] = last.trace[2].hash
    /\ last.stored[1].HeadHashes[Dot] = repos[Dot].refs[RefFeature]

====
